---- MODULE Spec2Model ----
(***************************************************************************)
(* Model of the OpenFoodFacts ingestion core of valens:                    *)
(*   valens/nutrition/utils.py          download, decompress_by_line       *)
(*   valens/nutrition/openfoodfacts.py  _convert_nutrient, _valid_ean*,    *)
(*                                      _convert_entry, _download_chunked, *)
(*                                      import_url                         *)
(*                                                                         *)
(* Optional values are sequences: <<>> is None, <<x>> is the value x.      *)
(* Byte strings are sequences of one-character strings.                    *)
(***************************************************************************)
EXTENDS Integers, Sequences, FiniteSets, TLC

VARIABLES
    data,      \* the decompressed content of the feed
    gz,        \* the compressed feed, a sequence of tokens
    srcPos,    \* number of tokens the chunk source has delivered
    lengthKnown, \* whether the chunk source knows the content length
    dbl,       \* frame of the generator decompress_by_line
    yielded,   \* what decompress_by_line has yielded so far
    argLine,   \* the line _convert_entry is called with
    result,    \* what the call of _convert_entry came to
    call,      \* the arguments import_url was called with
    imp,       \* frame of import_url
    dlc,       \* frame of the generator _download_chunked
    pending,   \* lines _download_chunked has yielded and import_url has not taken yet
    sink,      \* database.session: what is staged, what is committed
    server,    \* the HTTP server download talks to: its header and its manner
    dl,        \* frame of the generator download
    received,  \* the bytes download has yielded so far, chunk after chunk
    argEan,    \* the string the bar code checks are called with
    eanValid,  \* what the bar code checks returned
    argNutrient, \* the arguments _convert_nutrient is called with
    nutrient   \* what _convert_nutrient returned

feedVars == <<data, gz, srcPos, lengthKnown>>
framerVars == <<dbl, yielded>>
convertVars == <<argLine, result>>
importVars == <<call, imp, dlc, pending, sink>>
downloadVars == <<server, dl, received>>
eanVars == <<argEan, eanValid>>
nutrientVars == <<argNutrient, nutrient>>
vars == <<feedVars, framerVars, convertVars, importVars, downloadVars, eanVars, nutrientVars>>

----------------------------------------------------------------------------
(* Bounds of the model *)

\* longest decompressed content, in bytes
MaxData == 4

\* number of fields of the test record that a line may change
MaxEdits == 3

\* most lines of a feed that import_url reads
MaxLines == 4

\* Stand-in for the literal 10000 of openfoodfacts.py:764, the number of
\* accepted entries between two commits.  A feed of the model has a few
\* lines, so the interval is scaled with it.
CommitInterval == 2

\* Stand-in for the literal 42 of utils.py:63 and openfoodfacts.py:721, the
\* shortest input the framers hand to the decoder.  The compressed feeds of
\* the model are a few tokens long, so the threshold is scaled with them.
MinBlockSize == 4

----------------------------------------------------------------------------
(* Optional values and byte strings *)

None == <<>>
Some(x) == <<x>>
IsNone(o) == o = <<>>
Get(o) == o[1]

LF == "\n"
Bytes == {"a", LF}

RECURSIVE SeqsUpTo(_, _)
SeqsUpTo(S, n) ==
    IF n = 0 THEN {<<>>}
    ELSE UNION {{s, Append(s, x)} : s \in SeqsUpTo(S, n - 1), x \in S}

\* bytes.split(b"\n"): the pieces between the separators, at least one piece
RECURSIVE Split(_)
Split(s) ==
    IF \A i \in 1..Len(s) : s[i] # LF
    THEN <<s>>
    ELSE LET k == CHOOSE i \in 1..Len(s) :
                      s[i] = LF /\ \A j \in 1..(i - 1) : s[j] # LF
         IN  <<SubSeq(s, 1, k - 1)>> \o Split(SubSeq(s, k + 1, Len(s)))

RECURSIVE Repeat(_, _)
Repeat(b, n) == IF n = 0 THEN <<>> ELSE <<b>> \o Repeat(b, n - 1)

----------------------------------------------------------------------------
(* Numbers.  The floats of the records are exact rationals <<n, d>>, d > 0, *)
(* in lowest terms.                                                         *)

Abs(x) == IF x < 0 THEN -x ELSE x

RECURSIVE Gcd(_, _)
Gcd(a, b) == IF b = 0 THEN a ELSE Gcd(b, a % b)

Rat(n, d) ==
    LET s == IF d < 0 THEN -1 ELSE 1
        g == Gcd(Abs(n), Abs(d))
    IN  <<(s * n) \div g, (s * d) \div g>>

RInt(n) == <<n, 1>>
\* the product, the common factors cancelled before the multiplication
RMul(x, y) ==
    LET g == Gcd(Abs(x[1]), Abs(y[2]))
        h == Gcd(Abs(y[1]), Abs(x[2]))
    IN  Rat((x[1] \div g) * (y[1] \div h), (x[2] \div h) * (y[2] \div g))
RDiv(x, y) == Rat(x[1] * y[2], x[2] * y[1])
RAdd(x, y) == Rat(x[1] * y[2] + y[1] * x[2], x[2] * y[2])
RLeq(x, y) == x[1] * y[2] <= y[1] * x[2]
RIsZero(x) == x[1] = 0

\* truth value of an Optional[float]: neither None nor 0.0
TruthyNum(o) == ~IsNone(o) /\ ~RIsZero(Get(o))
\* truth value of an Optional[str]: neither None nor ""
TruthyStr(o) == ~IsNone(o) /\ Get(o) # ""
\* truth value of an Optional[list]: neither None nor []
TruthyList(o) == ~IsNone(o) /\ Get(o) # <<>>
\* a slip: 0.0 is kept instead of being replaced by None
OrNoneKeepsZero(o) == o

\* `x or None` for an Optional[float]
OrNone(o) == IF TruthyNum(o) THEN o ELSE None

----------------------------------------------------------------------------
(* Bar codes.  A code is a sequence of one-character strings.               *)

Digits == {"0", "1", "2", "3", "4", "5", "6", "7", "8", "9"}

DigitValue(c) ==
    CASE c = "0" -> 0 [] c = "1" -> 1 [] c = "2" -> 2 [] c = "3" -> 3 [] c = "4" -> 4
      [] c = "5" -> 5 [] c = "6" -> 6 [] c = "7" -> 7 [] c = "8" -> 8 [] c = "9" -> 9

\* stands for the one character U+00B2, SUPERSCRIPT TWO: a digit to
\* str.isdigit(), no decimal digit to int()
SuperscriptTwo == "sup2"

\* str.isdigit(): non-empty and characters of the Unicode digits only
IsDigit(s) == Len(s) > 0 /\ \A i \in 1..Len(s) : s[i] \in Digits \cup {SuperscriptTwo}

\* int(s) returns for a string without sign: non-empty and decimal digits
\* only; otherwise it raises ValueError
IsDecimal(s) == Len(s) > 0 /\ \A i \in 1..Len(s) : s[i] \in Digits

\* int(s) of a digit string of at most 9 digits
RECURSIVE IntOfDigits(_)
IntOfDigits(s) ==
    IF s = <<>> THEN 0
    ELSE 10 * IntOfDigits(SubSeq(s, 1, Len(s) - 1)) + DigitValue(s[Len(s)])

\* str.zfill(width) of a string without sign
ZFill(s, width) == IF Len(s) >= width THEN s ELSE Repeat("0", width - Len(s)) \o s

RECURSIVE SumOver(_, _)
SumOver(s, idx) ==
    IF idx = <<>> THEN 0 ELSE DigitValue(s[Head(idx)]) + SumOver(s, Tail(idx))

_valid_ean_country_code(code) ==
    IF 20 <= code /\ code < 30 THEN FALSE
    ELSE IF 40 <= code /\ code < 50 THEN FALSE
    ELSE IF 200 <= code /\ code < 300 THEN FALSE
    ELSE IF code > 958 THEN FALSE
    ELSE TRUE

\* _valid_ean8(ean) raises ValueError: ean passes the test of line 468 and
\* int() is reached with a part of it that is no decimal number, at line 471
\* or in the sums of line 475
_valid_ean8_raises(ean) ==
    /\ Len(ean) = 8
    /\ IsDigit(ean)
    /\ \/ ~IsDecimal(SubSeq(ean, 1, 3))
       \/ /\ _valid_ean_country_code(IntOfDigits(SubSeq(ean, 1, 3)))
          /\ ~IsDecimal(ean)

\* what _valid_ean8(ean) returns when it does not raise; ean[i] of the
\* source is ean[i + 1] here
_valid_ean8(ean) ==
    IF Len(ean) # 8 \/ ~IsDigit(ean) THEN FALSE
    ELSE IF ~_valid_ean_country_code(IntOfDigits(SubSeq(ean, 1, 3))) THEN FALSE
    ELSE (SumOver(ean, <<2, 4, 6, 8>>) + 3 * SumOver(ean, <<1, 3, 5, 7>>)) % 10 = 0

\* _valid_ean13(ean) raises ValueError: ean passes the test of line 486 and
\* int(ean) of line 489 is no decimal number
_valid_ean13_raises(ean) == Len(ean) = 13 /\ IsDigit(ean) /\ ~IsDecimal(ean)

\* What _valid_ean13(ean) returns when it does not raise.  int(ean) of 13
\* digits exceeds the 32-bit integers of TLC: it is compared through its
\* five leading digits and its eight trailing digits
_valid_ean13(ean) ==
    IF Len(ean) # 13 \/ ~IsDigit(ean) THEN FALSE
    ELSE LET high == IntOfDigits(SubSeq(ean, 1, 5))
             low == IntOfDigits(SubSeq(ean, 6, 13))
         IN  IF high = 0 /\ low < 1000000 THEN FALSE
             ELSE IF high = 0 /\ 1000000 <= low /\ low < 100000000 THEN FALSE
             ELSE IF ~_valid_ean_country_code(IntOfDigits(SubSeq(ean, 1, 3))) THEN FALSE
             ELSE (SumOver(ean, <<1, 3, 5, 7, 9, 11>>)
                   + 3 * SumOver(ean, <<2, 4, 6, 8, 10, 12>>)
                   + DigitValue(ean[13])) % 10 = 0

----------------------------------------------------------------------------
(* openfoodfacts._convert_nutrient *)

ETHANOL_DENSITY_G_PER_ML == Rat(789, 1000)

REGULAR_NUTRIMENT_NAMES ==
    <<"bicarbonate", "caffeine", "calcium", "carbohydrates", "chloride", "cholesterol",
      "chromium", "copper", "fat", "fiber", "fluoride", "iodine", "iron", "lactose",
      "magnesium", "manganese", "molybdenum", "monounsaturated_fat", "omega_3_fat",
      "omega_6_fat", "phosphorus", "polyunsaturated_fat", "potassium", "proteins", "salt",
      "saturated_fat", "selenium", "sodium", "starch", "sugars", "taurine", "trans_fat",
      "vitamin_a", "vitamin_b12", "vitamin_b1", "vitamin_b2", "vitamin_b5", "vitamin_b6",
      "vitamin_b7", "vitamin_c", "vitamin_d", "vitamin_e", "vitamin_k", "vitamin_k1",
      "zinc">>

LANGUAGES ==
    <<"ar", "bg", "ca", "ch", "cs", "da", "de", "el", "en", "es", "et", "fi", "fr", "he",
      "hr", "hu", "id", "it", "ja", "la", "lc", "lt", "lv", "nb", "nl", "no", "pl", "pt",
      "ro", "ru", "sk", "sl", "sr", "sv", "th", "tr", "uk", "vi", "zh">>

Range(f) == {f[i] : i \in DOMAIN f}

\* the spellings of the microgram: micro sign, Greek mu, HTML entity
MicrogramUnits == {"micro_sign_g", "greek_mu_g", "&#181;g"}

\* a slip: value_100g is scaled by the factor like value
_convert_nutrient_scales_100g(value, unit, value_100g, factor, name) ==
    IF TruthyNum(value_100g) THEN Some(RMul(factor, Get(value_100g)))
    ELSE IF IsNone(value) \/ IsNone(unit) THEN None
    ELSE IF RIsZero(Get(value)) THEN None
    ELSE IF Get(unit) \in MicrogramUnits
         THEN Some(RDiv(RMul(factor, Get(value)), RInt(1000000)))
    ELSE IF Get(unit) \in {"mg", "mcg"}
         THEN Some(RDiv(RMul(factor, Get(value)), RInt(1000)))
    ELSE IF Get(unit) \in {"g", "g/100mL", "g/100g", ""}
         THEN Some(RMul(factor, Get(value)))
    ELSE IF Get(unit) = "IU" /\ name = "vitamin_a"
         THEN Some(RMul(RMul(factor, Get(value)), Rat(3, 10000000)))
    ELSE IF Get(unit) = "IU" /\ name = "vitamin_d"
         THEN Some(RMul(RMul(factor, Get(value)), Rat(25, 1000000000)))
    ELSE IF Get(unit) = "IU" /\ name = "vitamin_e"
         THEN Some(RMul(RMul(factor, Get(value)), Rat(67, 100000000)))
    ELSE None

\* a slip: the test of value comes before the test of value_100g
_convert_nutrient_zero_first(value, unit, value_100g, factor, name) ==
    IF ~IsNone(value) /\ RIsZero(Get(value)) THEN None
    ELSE IF TruthyNum(value_100g) THEN value_100g
    ELSE IF IsNone(value) \/ IsNone(unit) THEN None
    ELSE IF Get(unit) \in MicrogramUnits
         THEN Some(RDiv(RMul(factor, Get(value)), RInt(1000000)))
    ELSE IF Get(unit) \in {"mg", "mcg"}
         THEN Some(RDiv(RMul(factor, Get(value)), RInt(1000)))
    ELSE IF Get(unit) \in {"g", "g/100mL", "g/100g", ""}
         THEN Some(RMul(factor, Get(value)))
    ELSE IF Get(unit) = "IU" /\ name = "vitamin_a"
         THEN Some(RMul(RMul(factor, Get(value)), Rat(3, 10000000)))
    ELSE IF Get(unit) = "IU" /\ name = "vitamin_d"
         THEN Some(RMul(RMul(factor, Get(value)), Rat(25, 1000000000)))
    ELSE IF Get(unit) = "IU" /\ name = "vitamin_e"
         THEN Some(RMul(RMul(factor, Get(value)), Rat(67, 100000000)))
    ELSE None

\* value, unit, value_100g: Optional; factor: a number; the result: Optional
_convert_nutrient(value, unit, value_100g, factor, name) ==
    IF TruthyNum(value_100g) THEN value_100g
    ELSE IF IsNone(value) \/ IsNone(unit) THEN None
    ELSE IF RIsZero(Get(value)) THEN None
    ELSE IF Get(unit) \in MicrogramUnits
         THEN Some(RDiv(RMul(factor, Get(value)), RInt(1000000)))
    ELSE IF Get(unit) \in {"mg", "mcg"}
         THEN Some(RDiv(RMul(factor, Get(value)), RInt(1000)))
    ELSE IF Get(unit) \in {"g", "g/100mL", "g/100g", ""}
         THEN Some(RMul(factor, Get(value)))
    ELSE IF Get(unit) = "IU" /\ name = "vitamin_a"
         THEN Some(RMul(RMul(factor, Get(value)), Rat(3, 10000000)))
    ELSE IF Get(unit) = "IU" /\ name = "vitamin_d"
         THEN Some(RMul(RMul(factor, Get(value)), Rat(25, 1000000000)))
    ELSE IF Get(unit) = "IU" /\ name = "vitamin_e"
         THEN Some(RMul(RMul(factor, Get(value)), Rat(67, 100000000)))
    ELSE None

----------------------------------------------------------------------------
(* openfoodfacts._convert_entry.  A line is given by what decoding it       *)
(* yields: bytes that are no UTF-8, text that is no JSON, a JSON value      *)
(* that is no object, or an object, whose fields are Optional.              *)

Triple(v, u, h) == [value |-> v, unit |-> u, value_100g |-> h]

NutrimentNames ==
    Range(REGULAR_NUTRIMENT_NAMES) \cup {"vitamin_b3", "vitamin_pp", "vitamin_b9", "folates"}

\* "nutriments": {}
EmptyNutriments ==
    [alcohol |-> None, alcohol_unit |-> None, energy_kcal |-> None, energy_kj |-> None,
     n |-> [x \in NutrimentNames |-> Triple(None, None, None)]]

\* the outcomes of _convert_entry
Returned(e) == [kind |-> "entry", reason |-> <<>>, entry |-> Some(e)]
InvalidDataError(reason) == [kind |-> "InvalidDataError", reason |-> reason, entry |-> None]
Raised(exception) == [kind |-> exception, reason |-> <<>>, entry |-> None]

\* str.lower() on the flags of the records
Lower(s) ==
    CASE s = "ON" -> "on" [] s = "On" -> "on" [] s = "TRUE" -> "true" [] s = "True" -> "true"
      [] OTHER -> s

\* int(str): None stands for the ValueError of a string that is no integer
ParseInt(s) ==
    IF IsDecimal(s) /\ Len(s) <= 9 THEN Some(IntOfDigits(s))
    ELSE IF Len(s) > 1 /\ s[1] = "-" /\ IsDecimal(Tail(s)) THEN Some(-IntOfDigits(Tail(s)))
    ELSE IF Len(s) > 1 /\ s[1] = "+" /\ IsDecimal(Tail(s)) THEN Some(IntOfDigits(Tail(s)))
    ELSE None

\* datetime.date.fromtimestamp(t), as the number of the day since the epoch
DateFromTimestamp(t) == t \div 86400

\* UNITS.get(product_quantity_unit, models.Unit.G)
UnitOf(u) == IF ~IsNone(u) /\ Get(u) = "ml" THEN "ML" ELSE "G"

\* a slip: a serving in percent is taken as it is, not as a part of the
\* product quantity
ServingQuantityRaw(entry, quantity) ==
    IF ~TruthyNum(entry.serving_quantity) THEN [ok |-> TRUE, v |-> None, reason |-> <<>>]
    ELSE IF IsNone(entry.serving_quantity_unit) \/ entry.serving_quantity_unit = Some("g")
         THEN [ok |-> TRUE, v |-> entry.serving_quantity, reason |-> <<>>]
    ELSE IF entry.serving_quantity_unit = Some("%")
         THEN IF IsNone(quantity)
              THEN [ok |-> FALSE, v |-> None,
                    reason |-> <<"serving_quantity in percent, but no product_quantity">>]
              ELSE [ok |-> TRUE, v |-> entry.serving_quantity, reason |-> <<>>]
    ELSE [ok |-> FALSE, v |-> None,
          reason |-> <<"unsupported serving quantity unit", Get(entry.serving_quantity_unit)>>]

\* openfoodfacts.py:559-570: serving_quantity, or the reason of the rejection
ServingQuantity(entry, quantity) ==
    IF ~TruthyNum(entry.serving_quantity) THEN [ok |-> TRUE, v |-> None, reason |-> <<>>]
    ELSE IF IsNone(entry.serving_quantity_unit) \/ entry.serving_quantity_unit = Some("g")
         THEN [ok |-> TRUE, v |-> entry.serving_quantity, reason |-> <<>>]
    ELSE IF entry.serving_quantity_unit = Some("%")
         THEN IF IsNone(quantity)
              THEN [ok |-> FALSE, v |-> None,
                    reason |-> <<"serving_quantity in percent, but no product_quantity">>]
              ELSE [ok |-> TRUE,
                    v |-> Some(RMul(RDiv(Get(entry.serving_quantity), RInt(100)),
                                    Get(quantity))),
                    reason |-> <<>>]
    ELSE [ok |-> FALSE, v |-> None,
          reason |-> <<"unsupported serving quantity unit", Get(entry.serving_quantity_unit)>>]

\* openfoodfacts.py:582-591: alcohol, or the reason of the rejection
Alcohol(nutriments, factor) ==
    IF IsNone(nutriments.alcohol) THEN [ok |-> TRUE, v |-> None, reason |-> <<>>]
    ELSE IF IsNone(nutriments.alcohol_unit)
         THEN [ok |-> FALSE, v |-> None, reason |-> <<"alcohol has no unit">>]
    ELSE IF Get(nutriments.alcohol_unit) \in {"% vol", "% vol / *", "vol", "%"}
         THEN [ok |-> TRUE,
               v |-> Some(RMul(RMul(factor, Get(nutriments.alcohol)), ETHANOL_DENSITY_G_PER_ML)),
               reason |-> <<>>]
    ELSE IF Get(nutriments.alcohol_unit) = "g"
         THEN [ok |-> TRUE, v |-> Some(RMul(factor, Get(nutriments.alcohol))), reason |-> <<>>]
    ELSE [ok |-> FALSE, v |-> None,
          reason |-> <<"invalid alcohol unit", Get(nutriments.alcohol_unit)>>]

\* openfoodfacts.py:594-598
Energy(nutriments, factor) ==
    IF ~IsNone(nutriments.energy_kcal) THEN Some(RMul(factor, Get(nutriments.energy_kcal)))
    ELSE IF ~IsNone(nutriments.energy_kj)
         THEN Some(RMul(RMul(factor, Get(nutriments.energy_kj)), Rat(23900574, 100000000)))
    ELSE None

ConvertNamed(nutriments, factor, name) ==
    _convert_nutrient(nutriments.n[name].value, nutriments.n[name].unit,
                      nutriments.n[name].value_100g, factor, name)

\* openfoodfacts.py:601-621 and 624-644: a vitamin and its synonym, summed
SumOfSynonyms(nutriments, factor, name, synonym) ==
    LET a == ConvertNamed(nutriments, factor, name)
        b == ConvertNamed(nutriments, factor, synonym)
    IN  IF ~IsNone(a) THEN (IF ~IsNone(b) THEN Some(RAdd(Get(a), Get(b))) ELSE a)
        ELSE IF ~IsNone(b) THEN b
        ELSE None

\* openfoodfacts.py:655-671
NutrimentValues(nutriments, factor, alcohol) ==
    [name \in {"alcohol", "energy", "vitamin_b3", "vitamin_b9"}
              \cup Range(REGULAR_NUTRIMENT_NAMES) |->
        CASE name = "alcohol" -> OrNone(alcohol)
          [] name = "energy" -> OrNone(Energy(nutriments, factor))
          [] name = "vitamin_b3" ->
                 OrNone(SumOfSynonyms(nutriments, factor, "vitamin_b3", "vitamin_pp"))
          [] name = "vitamin_b9" ->
                 OrNone(SumOfSynonyms(nutriments, factor, "vitamin_b9", "folates"))
          [] OTHER -> OrNone(ConvertNamed(nutriments, factor, name))]

\* openfoodfacts.py:646-653 and 677
LocalizedNames(entry) ==
    LET keep == SelectSeq(LANGUAGES,
                    LAMBDA l : TruthyStr(entry.names[l]) /\ entry.names[l] # entry.product_name)
    IN  IF keep = <<>> THEN None
        ELSE Some([i \in 1..Len(keep) |-> <<keep[i], Get(entry.names[keep[i]])>>])

\* openfoodfacts.py:678-680: a brand is its name and the blanks around it
Brands(entry) ==
    IF TruthyList(entry.brands)
    THEN Some([i \in 1..Len(Get(entry.brands)) |-> Get(entry.brands)[i].name])
    ELSE None

\* a slip: the date of last_updated_t also when it is absent
LastUpdatedNoDefault(entry, created) ==
    DateFromTimestamp(IF IsNone(entry.last_updated_t) THEN 0 ELSE Get(entry.last_updated_t))

\* openfoodfacts.py:689-691
LastUpdated(entry, created) ==
    IF ~IsNone(entry.last_updated_t) /\ Get(entry.last_updated_t) # 0
    THEN DateFromTimestamp(Get(entry.last_updated_t))
    ELSE created

\* openfoodfacts.py:549-695: from the nutriments on
ConvertNutriments(entry, code) ==
    LET nutriments == IF ~IsNone(entry.nutriments) THEN entry.nutriments
                      ELSE entry.nutriments_estimated
    IN  IF IsNone(nutriments) THEN InvalidDataError(<<"no nutriments present">>)
        ELSE
        LET created == DateFromTimestamp(Get(entry.created_t))
            quantity == OrNone(entry.product_quantity)
            unit == UnitOf(entry.product_quantity_unit)
            serving == ServingQuantity(entry, quantity)
        IN  IF ~serving.ok THEN InvalidDataError(serving.reason)
            ELSE
            LET per_serving == entry.nutrition_data_per = Some("serving")
                factor == IF per_serving /\ TruthyNum(serving.v)
                          THEN RDiv(RInt(100), Get(serving.v))
                          ELSE RInt(1)
            IN  IF per_serving /\ ~TruthyNum(serving.v)
                THEN InvalidDataError(<<"nutrition data per serving, but no serving quantity">>)
                ELSE
                LET alcohol == Alcohol(Get(nutriments), factor)
                IN  IF ~alcohol.ok THEN InvalidDataError(alcohol.reason)
                    ELSE
                    LET values == NutrimentValues(Get(nutriments), factor, alcohol.v)
                    IN  IF \A name \in DOMAIN values : IsNone(values[name])
                        THEN InvalidDataError(<<"all nutrition data is zero">>)
                        ELSE Returned(
                            [code |-> code,
                             created |-> created,
                             last_updated |-> LastUpdated(entry, created),
                             name |-> Get(entry.product_name),
                             localized_names |-> LocalizedNames(entry),
                             brands |-> Brands(entry),
                             serving_quantity |-> OrNone(serving.v),
                             quantity |-> quantity,
                             unit |-> unit,
                             nutrients |-> values])

\* a slip: the tag "code-13" is looked for before the tag "code-8"
ConvertCodeThirteenFirst(entry) ==
    IF "code-13" \in Range(Get(entry.codes_tags))
    THEN LET code == ZFill(Get(entry.code), 13)
         IN  IF _valid_ean13_raises(code) THEN Raised("ValueError")
             ELSE IF ~_valid_ean13(code) THEN InvalidDataError(<<"invalid EAN-13 code">>)
             ELSE ConvertNutriments(entry, code)
    ELSE IF "code-8" \in Range(Get(entry.codes_tags))
    THEN LET code == ZFill(Get(entry.code), 8)
         IN  IF _valid_ean8_raises(code) THEN Raised("ValueError")
             ELSE IF ~_valid_ean8(code) THEN InvalidDataError(<<"invalid EAN-8 code">>)
             ELSE ConvertNutriments(entry, code)
    ELSE InvalidDataError(<<"no supported code tag found">>)

\* openfoodfacts.py:535-547: the bar code
ConvertCode(entry) ==
    IF "code-8" \in Range(Get(entry.codes_tags))
    THEN LET code == ZFill(Get(entry.code), 8)
         IN  IF _valid_ean8_raises(code) THEN Raised("ValueError")
             ELSE IF ~_valid_ean8(code) THEN InvalidDataError(<<"invalid EAN-8 code">>)
             ELSE ConvertNutriments(entry, code)
    ELSE IF "code-13" \in Range(Get(entry.codes_tags))
    THEN LET code == ZFill(Get(entry.code), 13)
         IN  IF _valid_ean13_raises(code) THEN Raised("ValueError")
             ELSE IF ~_valid_ean13(code) THEN InvalidDataError(<<"invalid EAN-13 code">>)
             ELSE ConvertNutriments(entry, code)
    ELSE InvalidDataError(<<"no supported code tag found">>)

\* openfoodfacts.py:514-533: the gates on the parsed entry
ConvertParsed(entry) ==
    IF TruthyStr(entry.no_nutrition_data)
       /\ Lower(Get(entry.no_nutrition_data)) \in {"on", "true"}
    THEN InvalidDataError(<<"no nutrition data">>)
    ELSE IF IsNone(entry.identifier) THEN InvalidDataError(<<"no identifier">>)
    ELSE IF IsNone(ParseInt(Get(entry.identifier))) THEN Raised("ValueError")
    ELSE IF Get(ParseInt(Get(entry.identifier))) = 0
         THEN InvalidDataError(<<"invalid identifier", Get(entry.identifier)>>)
    ELSE IF IsNone(entry.created_t) THEN InvalidDataError(<<"no creation date">>)
    ELSE IF IsNone(entry.product_name) THEN InvalidDataError(<<"no product name">>)
    ELSE IF ~TruthyList(entry.codes_tags) THEN InvalidDataError(<<"no codes tags">>)
    ELSE IF TruthyStr(entry.obsolete) /\ Lower(Get(entry.obsolete)) = "on"
         THEN InvalidDataError(<<"obsolete entry">>)
    ELSE ConvertCode(entry)

\* openfoodfacts.py:509-512: decoding, parsing and the typed model, whose only
\* required field is code
_convert_entry(line) ==
    IF line.form = "bad_utf8" THEN Raised("UnicodeDecodeError")
    ELSE IF line.form = "bad_json" THEN InvalidDataError(<<line.msg>>)
    ELSE IF line.form = "not_object" THEN Raised("TypeError")
    ELSE IF IsNone(line.obj.code) THEN Raised("ValidationError")
    ELSE ConvertParsed(line.obj)

----------------------------------------------------------------------------
(* The lines _convert_entry is applied to: the record of the tests with up   *)
(* to MaxEdits of its fields changed, and the lines that are no object.     *)

Chars(n) ==
    CASE n = 13 -> <<"4", "0", "1", "7", "1", "0", "0", "2", "9", "0", "0", "0", "8">>
      [] n = 8 -> <<"4", "4", "0", "0", "0", "2", "7", "1">>
      [] n = 4 -> <<"1", "2", "3", "4">>
      [] OTHER -> <<"i", "n", "v", "a", "l", "i", "d">>

BaseNutriments ==
    [EmptyNutriments EXCEPT !.alcohol = Some(RInt(5)), !.alcohol_unit = Some("% vol")]

BaseEntry ==
    [identifier |-> Some(<<"1">>),
     code |-> Some(Chars(13)),
     created_t |-> Some(172800),
     last_updated_t |-> None,
     product_name |-> Some("Banana"),
     names |-> [l \in Range(LANGUAGES) |-> None],
     product_quantity |-> None,
     product_quantity_unit |-> None,
     no_nutrition_data |-> None,
     serving_quantity |-> None,
     serving_quantity_unit |-> None,
     nutrition_data_per |-> None,
     nutriments |-> Some(BaseNutriments),
     nutriments_estimated |-> None,
     brands |-> None,
     codes_tags |-> Some(<<"code-13">>),
     obsolete |-> None]

\* a change of a field of "nutriments", when the record has nutriments
EditNutriments(o, k) ==
    IF IsNone(o.nutriments) THEN o
    ELSE LET n == Get(o.nutriments)
             m == CASE k = 1 -> [n EXCEPT !.alcohol = None]
                    [] k = 2 -> [n EXCEPT !.alcohol = Some(RInt(0))]
                    [] k = 3 -> [n EXCEPT !.alcohol_unit = None]
                    [] k = 4 -> [n EXCEPT !.alcohol_unit = Some("g")]
                    [] k = 5 -> [n EXCEPT !.alcohol_unit = Some("invalid")]
                    [] k = 6 -> [n EXCEPT !.energy_kcal = Some(RInt(0))]
                    [] k = 7 -> [n EXCEPT !.energy_kcal = Some(RInt(100))]
                    [] k = 8 -> [n EXCEPT !.energy_kj = Some(RInt(100))]
                    [] k = 9 -> [n EXCEPT !.n["calcium"] = Triple(Some(RInt(1)), Some("mg"), None)]
                    [] k = 10 -> [n EXCEPT !.n["zinc"] = Triple(Some(RInt(0)), Some("g"), None)]
                    [] k = 11 -> [n EXCEPT !.n["vitamin_a"] = Triple(Some(RInt(1)), Some("IU"), None)]
                    [] k = 12 -> [n EXCEPT !.n["vitamin_pp"] = Triple(Some(RInt(1)), Some("mg"), None)]
                    [] k = 13 -> [n EXCEPT !.n["vitamin_b3"] =
                                      Triple(Some(RInt(1)), Some("mg"), Some(RInt(2)))]
                    [] OTHER -> [n EXCEPT !.n["iron"] = Triple(Some(RInt(1)), Some("IU"), None)]
         IN  [o EXCEPT !.nutriments = Some(m)]

NumEdits == 48 + 14

\* the k-th change of one field of a record
Edit(o, k) ==
    CASE k = 1 -> [o EXCEPT !.no_nutrition_data = Some("on")]
      [] k = 2 -> [o EXCEPT !.no_nutrition_data = Some("TRUE")]
      [] k = 3 -> [o EXCEPT !.no_nutrition_data = Some("off")]
      [] k = 4 -> [o EXCEPT !.identifier = None]
      [] k = 5 -> [o EXCEPT !.identifier = Some(<<"0">>)]
      [] k = 6 -> [o EXCEPT !.identifier = Some(<<"0", "0">>)]
      [] k = 7 -> [o EXCEPT !.identifier = Some(<<"a", "b", "c">>)]
      [] k = 8 -> [o EXCEPT !.identifier = Some(<<"-", "5">>)]
      [] k = 9 -> [o EXCEPT !.code = None]
      [] k = 10 -> [o EXCEPT !.code = Some(Chars(8))]
      [] k = 11 -> [o EXCEPT !.code = Some(Chars(4))]
      [] k = 12 -> [o EXCEPT !.code = Some(Chars(0))]
      [] k = 13 -> [o EXCEPT !.created_t = None]
      [] k = 14 -> [o EXCEPT !.created_t = Some(0)]
      [] k = 15 -> [o EXCEPT !.created_t = Some(86399)]
      [] k = 16 -> [o EXCEPT !.last_updated_t = Some(0)]
      [] k = 17 -> [o EXCEPT !.last_updated_t = Some(1)]
      [] k = 18 -> [o EXCEPT !.last_updated_t = Some(172800)]
      [] k = 19 -> [o EXCEPT !.last_updated_t = Some(432000)]
      [] k = 20 -> [o EXCEPT !.product_name = None]
      [] k = 21 -> [o EXCEPT !.codes_tags = None]
      [] k = 22 -> [o EXCEPT !.codes_tags = Some(<<>>)]
      [] k = 23 -> [o EXCEPT !.codes_tags = Some(<<"code-8">>)]
      [] k = 24 -> [o EXCEPT !.codes_tags = Some(<<"code-13", "code-8">>)]
      [] k = 25 -> [o EXCEPT !.codes_tags = Some(<<"code-99">>)]
      [] k = 26 -> [o EXCEPT !.obsolete = Some("on")]
      [] k = 27 -> [o EXCEPT !.obsolete = Some("ON")]
      [] k = 28 -> [o EXCEPT !.obsolete = Some("off")]
      [] k = 29 -> [o EXCEPT !.nutriments = None]
      [] k = 30 -> [o EXCEPT !.nutriments = Some(EmptyNutriments)]
      [] k = 31 -> [o EXCEPT !.nutriments_estimated =
                        Some([EmptyNutriments EXCEPT !.energy_kj = Some(RInt(123))])]
      [] k = 32 -> [o EXCEPT !.product_quantity = Some(RInt(200))]
      [] k = 33 -> [o EXCEPT !.product_quantity = Some(RInt(0))]
      [] k = 34 -> [o EXCEPT !.product_quantity_unit = Some("ml")]
      [] k = 35 -> [o EXCEPT !.serving_quantity = Some(RInt(50))]
      [] k = 36 -> [o EXCEPT !.serving_quantity = Some(RInt(0))]
      [] k = 37 -> [o EXCEPT !.serving_quantity_unit = Some("g")]
      [] k = 38 -> [o EXCEPT !.serving_quantity_unit = Some("%")]
      [] k = 39 -> [o EXCEPT !.serving_quantity_unit = Some("invalid")]
      [] k = 40 -> [o EXCEPT !.nutrition_data_per = Some("serving")]
      [] k = 41 -> [o EXCEPT !.nutrition_data_per = Some("100g")]
      [] k = 42 -> [o EXCEPT !.brands =
                        Some(<<[name |-> "brand1", blanks |-> 0], [name |-> "brand2", blanks |-> 4]>>)]
      [] k = 43 -> [o EXCEPT !.names["de"] = Some("Banane")]
      [] k = 44 -> [o EXCEPT !.names["en"] = Some("Banana")]
      [] k = 45 -> [o EXCEPT !.code = Some(<<"1", "2", "3", "6">>)]
      [] k = 46 -> [o EXCEPT !.code =
                        Some(<<"1", "2", "3", "4", "5", "6", "7", "8", "9", "0", "5">>)]
      [] k = 47 -> [o EXCEPT !.code = Some(<<"4", "0", "1", "7", SuperscriptTwo>>)]
      [] k = 48 -> [o EXCEPT !.serving_quantity = Some(RInt(25)),
                             !.serving_quantity_unit = Some("%"),
                             !.product_quantity = Some(RInt(200))]
      [] OTHER -> EditNutriments(o, k - 48)

RECURSIVE Edited(_)
Edited(n) ==
    IF n = 0 THEN {BaseEntry}
    ELSE LET fewer == Edited(n - 1)
         IN  fewer \cup {Edit(o, k) : o \in fewer, k \in 1..NumEdits}

ObjectLine(o) == [form |-> "object", msg |-> "", obj |-> o]

OtherLines ==
    {[form |-> "bad_utf8", msg |-> "", obj |-> BaseEntry],
     [form |-> "bad_json", msg |-> "Expecting value: line 1 column 1 (char 0)", obj |-> BaseEntry],
     [form |-> "bad_json", msg |-> "Extra data: line 1 column 3 (char 2)", obj |-> BaseEntry],
     [form |-> "not_object", msg |-> "", obj |-> BaseEntry]}

NotCalled == [kind |-> "none", reason |-> <<>>, entry |-> None]

----------------------------------------------------------------------------
(* gzip: the feed is a header, a deflate body, an end-of-block marker and   *)
(* a trailer.  A token stands for the bytes of the compressed stream that   *)
(* the decoder consumes as a unit; the body is made of literals and of      *)
(* back-references that repeat the previous byte.                           *)

Hdr == [t |-> "hdr", b |-> "", n |-> 0]
Eob == [t |-> "eob", b |-> "", n |-> 0]
Trl == [t |-> "trl", b |-> "", n |-> 0]
Lit(x) == [t |-> "lit", b |-> x, n |-> 0]
Rep(k) == [t |-> "rep", b |-> "", n |-> k]

\* length of the run of equal bytes at the head of s
RECURSIVE RunLen(_)
RunLen(s) ==
    IF Len(s) < 2 \/ s[1] # s[2] THEN 1 ELSE 1 + RunLen(Tail(s))

RECURSIVE Deflate(_, _)
Deflate(s, lvl) ==
    IF s = <<>> THEN <<>>
    ELSE IF lvl = 0 \/ RunLen(s) = 1
         THEN <<Lit(s[1])>> \o Deflate(Tail(s), lvl)
         ELSE LET r == RunLen(s)
              IN  <<Lit(s[1]), Rep(r - 1)>> \o Deflate(SubSeq(s, r + 1, Len(s)), lvl)

GzipCompress(s, lvl) == <<Hdr>> \o Deflate(s, lvl) \o <<Eob, Trl>>

\* zlib.decompressobj(32 + zlib.MAX_WBITS): a fresh streaming decoder
DecompressObj == [phase |-> "hdr", last |-> ""]

\* one token through the streaming decoder: the new decoder and its output
DecodeToken(d, tok) ==
    CASE d.phase = "hdr" /\ tok.t = "hdr" -> [d |-> [d EXCEPT !.phase = "body"], out |-> <<>>]
      [] d.phase = "body" /\ tok.t = "lit" -> [d |-> [d EXCEPT !.last = tok.b], out |-> <<tok.b>>]
      [] d.phase = "body" /\ tok.t = "rep" /\ d.last # "" ->
             [d |-> d, out |-> Repeat(d.last, tok.n)]
      [] d.phase = "body" /\ tok.t = "eob" -> [d |-> [d EXCEPT !.phase = "trl"], out |-> <<>>]
      [] d.phase = "trl" /\ tok.t = "trl" -> [d |-> [d EXCEPT !.phase = "end"], out |-> <<>>]
      [] d.phase = "end" -> [d |-> d, out |-> <<>>]
      [] OTHER -> [d |-> [d EXCEPT !.phase = "error"], out |-> <<>>]

\* decomp.decompress(input): everything the input seen so far decodes to
RECURSIVE Decompress(_, _)
Decompress(d, input) ==
    IF input = <<>> THEN [d |-> d, out |-> <<>>]
    ELSE LET one == DecodeToken(d, Head(input))
             rest == Decompress(one.d, Tail(input))
         IN  [d |-> rest.d, out |-> one.out \o rest.out]

----------------------------------------------------------------------------
(* utils.decompress_by_line *)

Line(l, p) == [line |-> l, progress |-> p]

\* the lines one decoded block yields (utils.py:70-77 and 80-86), in order
LinesOf(lines, partial_output, progress) ==
    IF Len(lines) > 1
    THEN <<Line(IF IsNone(partial_output) THEN lines[1]
                ELSE Get(partial_output) \o lines[1], progress)>>
         \o [i \in 1..(Len(lines) - 2) |-> Line(lines[i + 1], progress)]
    ELSE <<>>

\* a slip: partial_output is not reset once its line has been yielded
PartialAfterKeeps(lines, partial_output) ==
    IF IsNone(partial_output) THEN Some(lines[Len(lines)])
    ELSE Some(Get(partial_output) \o lines[Len(lines)])

\* partial_output after one decoded block (utils.py:71-75 and 81-84)
PartialAfter(lines, partial_output) ==
    LET cleared == IF Len(lines) > 1 THEN None ELSE partial_output
    IN  IF IsNone(cleared) THEN Some(lines[Len(lines)])
        ELSE Some(Get(cleared) \o lines[Len(lines)])

DblInit ==
    [pc |-> "loop", partial_input |-> <<>>, partial_output |-> None,
     decomp |-> DecompressObj, progress |-> None]

\* one iteration of `for chunk, progress in download` (utils.py:61-77)
\* decompress_by_line whose lines carry the progress of the chunk before
DblChunkStaleProgress(f, chunk, progress) ==
    IF Len(f.partial_input) + Len(chunk) < MinBlockSize
    THEN [frame |-> [f EXCEPT !.partial_input = f.partial_input \o chunk,
                              !.progress = progress],
          out |-> <<>>]
    ELSE LET res == Decompress(f.decomp, f.partial_input \o chunk)
             lines == Split(res.out)
         IN  [frame |-> [f EXCEPT !.partial_input = <<>>,
                                  !.decomp = res.d,
                                  !.partial_output = PartialAfter(lines, f.partial_output),
                                  !.progress = progress],
              out |-> LinesOf(lines, f.partial_output, f.progress)]

DblChunk(f, chunk, progress) ==
    IF Len(f.partial_input) + Len(chunk) < MinBlockSize
    THEN [frame |-> [f EXCEPT !.partial_input = f.partial_input \o chunk,
                              !.progress = progress],
          out |-> <<>>]
    ELSE LET res == Decompress(f.decomp, f.partial_input \o chunk)
             lines == Split(res.out)
         IN  [frame |-> [f EXCEPT !.partial_input = <<>>,
                                  !.decomp = res.d,
                                  !.partial_output = PartialAfter(lines, f.partial_output),
                                  !.progress = progress],
              out |-> LinesOf(lines, f.partial_output, progress)]

\* a slip: the last line is yielded only when it has bytes
DblFinishDropsEmpty(f) ==
    LET flush == f.partial_input # <<>>
        res == Decompress(f.decomp, f.partial_input)
        lines == Split(res.out)
        po == IF flush THEN PartialAfter(lines, f.partial_output) ELSE f.partial_output
        out == IF flush THEN LinesOf(lines, f.partial_output, f.progress) ELSE <<>>
    IN  IF IsNone(po)
        THEN [frame |-> [f EXCEPT !.pc = "AssertionError"], out |-> out]
        ELSE [frame |-> [f EXCEPT !.pc = "done", !.partial_output = po,
                                  !.decomp = IF flush THEN res.d ELSE f.decomp],
              out |-> IF Get(po) = <<>> THEN out
                      ELSE out \o <<Line(Get(po), f.progress)>>]

\* after the loop (utils.py:79-89)
DblFinish(f) ==
    LET flush == f.partial_input # <<>>
        res == Decompress(f.decomp, f.partial_input)
        lines == Split(res.out)
        po == IF flush THEN PartialAfter(lines, f.partial_output) ELSE f.partial_output
        out == IF flush THEN LinesOf(lines, f.partial_output, f.progress) ELSE <<>>
    IN  IF IsNone(po)
        THEN [frame |-> [f EXCEPT !.pc = "AssertionError"], out |-> out]
        ELSE [frame |-> [f EXCEPT !.pc = "done", !.partial_output = po,
                                  !.decomp = IF flush THEN res.d ELSE f.decomp],
              out |-> out \o <<Line(Get(po), f.progress)>>]

----------------------------------------------------------------------------
(* The parts of the state a specification does not use stay as they are     *)
(* before anything has run.                                                 *)

ImpInit == [pc |-> "idle", total |-> 0, valid |-> 0, entries |-> <<>>, error |-> ""]

DlcInit ==
    [pc |-> "idle", source |-> None, partial_input |-> <<>>, partial_output |-> None,
     bytes_read |-> 0, content_length |-> None, decomp |-> DecompressObj,
     progress |-> None]

SinkInit == [staged |-> <<>>, batches |-> <<>>]

DlInit ==
    [pc |-> "idle", chunk_size |-> 0, head |-> None, length |-> 0, position |-> 0,
     range |-> None, progress |-> None, gets |-> 0, error |-> <<>>]

NoServer == [content_length |-> None, manner |-> "ranged"]

NoCall == [url |-> "", chunk_size |-> None, commit_interval |-> None]

IdleFeed ==
    /\ data = <<>>
    /\ gz = <<>>
    /\ srcPos = 0
    /\ lengthKnown = FALSE

IdleFramer ==
    /\ dbl = DblInit
    /\ yielded = <<>>

IdleConvert ==
    /\ argLine = ObjectLine(BaseEntry)
    /\ result = NotCalled

IdleImport ==
    /\ call = NoCall
    /\ imp = ImpInit
    /\ dlc = DlcInit
    /\ pending = <<>>
    /\ sink = SinkInit

IdleDownload ==
    /\ server = NoServer
    /\ dl = DlInit
    /\ received = <<>>

IdleEan ==
    /\ argEan = <<>>
    /\ eanValid = None

IdleNutrient ==
    /\ argNutrient = [value |-> None, unit |-> None, value_100g |-> None,
                      factor |-> RInt(1), name |-> ""]
    /\ nutrient = <<>>

----------------------------------------------------------------------------
(* The chunk source handed to decompress_by_line: any generator of          *)
(* (chunk, progress) pairs that cuts the compressed feed into chunks.       *)

Progress(pos) == IF lengthKnown THEN Some(<<pos, Len(gz)>>) ELSE None

\* gzip.compress(data, compresslevel) at the levels of the model
Levels == {0, 9}

FramerInit ==
    /\ data \in SeqsUpTo(Bytes, MaxData)
    /\ gz \in {GzipCompress(data, lvl) : lvl \in Levels}
    /\ srcPos = 0
    /\ lengthKnown \in BOOLEAN
    /\ dbl = DblInit
    /\ yielded = <<>>
    /\ IdleConvert
    /\ IdleImport
    /\ IdleDownload
    /\ IdleEan
    /\ IdleNutrient

\* the source yields the next n tokens (n = 0: an empty chunk)
FramerChunk ==
    /\ dbl.pc = "loop"
    /\ \E n \in 0..(Len(gz) - srcPos) :
         /\ n > 0 \/ srcPos < Len(gz)
         /\ LET step == DblChunk(dbl, SubSeq(gz, srcPos + 1, srcPos + n), Progress(srcPos + n))
            IN  /\ dbl' = step.frame
                /\ yielded' = yielded \o step.out
         /\ srcPos' = srcPos + n
    /\ UNCHANGED <<downloadVars, eanVars, nutrientVars, data, gz, lengthKnown, convertVars, importVars>>

\* the source is exhausted
FramerEnd ==
    /\ dbl.pc = "loop"
    /\ srcPos = Len(gz)
    /\ LET step == DblFinish(dbl)
       IN  /\ dbl' = step.frame
           /\ yielded' = yielded \o step.out
    /\ UNCHANGED <<downloadVars, eanVars, nutrientVars, feedVars, convertVars, importVars>>

FramerNext == FramerChunk \/ FramerEnd

SpecFramer == FramerInit /\ [][FramerNext]_vars

----------------------------------------------------------------------------
(* _convert_entry applied to one line *)

ConvertInit ==
    /\ IdleFeed
    /\ IdleFramer
    /\ IdleImport
    /\ argLine \in {ObjectLine(o) : o \in Edited(MaxEdits)} \cup OtherLines
    /\ result = NotCalled
    /\ IdleDownload
    /\ IdleEan
    /\ IdleNutrient

ConvertCall ==
    /\ result = NotCalled
    /\ result' = _convert_entry(argLine)
    /\ UNCHANGED <<downloadVars, eanVars, nutrientVars, argLine, feedVars, framerVars, importVars>>

SpecConvert == ConvertInit /\ [][ConvertCall]_vars

----------------------------------------------------------------------------
(* _valid_ean8 and _valid_ean13 applied to one string *)

\* The strings the functions are applied to: three first characters, the
\* characters between them and the last (nine of a string of length 13,
\* four of a string of length 8) and a last character, then the same with
\* one character less and with one more, and the empty string.
EanStrings ==
    LET prefixes ==
        {<<"0", "0", "0">>, <<"0", "1", "9">>, <<"0", "2", "0">>, <<"0", "2", "1">>,
         <<"0", "2", "9">>, <<"0", "3", "0">>, <<"0", "3", "9">>, <<"0", "4", "0">>,
         <<"0", "4", "9">>, <<"0", "5", "0">>, <<"1", "9", "9">>, <<"2", "0", "0">>,
         <<"2", "9", "9">>, <<"3", "0", "0">>, <<"4", "0", "1">>, <<"4", "4", "0">>,
         <<"9", "5", "8">>, <<"9", "5", "9">>, <<"9", "6", "0">>, <<"n", "0", "t">>,
         <<"0", SuperscriptTwo, "0">>}
        bodies ==
        {<<"0", "0", "0", "0", "0", "0", "0", "0", "0">>,
         <<"0", "0", "0", "0", "9", "9", "9", "9", "9">>,
         <<"0", "0", "0", "1", "0", "0", "0", "0", "0">>,
         <<"0", "0", "9", "9", "9", "9", "9", "9", "9">>,
         <<"0", "1", "0", "0", "0", "0", "0", "0", "0">>,
         <<"0", "9", "9", "9", "9", "9", "9", "9", "9">>,
         <<"1", "0", "0", "0", "0", "0", "0", "0", "0">>,
         <<"7", "1", "0", "0", "2", "9", "0", "0", "0">>,
         <<"7", "1", "0", "-", "2", "9", "0", "0", "0">>,
         <<"7", "1", "0", "0", "2", SuperscriptTwo, "0", "0", "0">>,
         <<"0", "0", "2", "7">>,
         <<"0", "0", "0", "0">>,
         <<"0", "-", "2", "7">>,
         <<"0", SuperscriptTwo, "2", "7">>}
        last == Digits \cup {"-", SuperscriptTwo}
        full == {p \o b \o <<c>> : p \in prefixes, b \in bodies, c \in last}
    IN  full \cup {p \o b : p \in prefixes, b \in bodies}
             \cup {Append(e, "0") : e \in full}
             \cup {<<>>}

EanInit ==
    /\ IdleFeed
    /\ IdleFramer
    /\ IdleConvert
    /\ IdleImport
    /\ IdleDownload
    /\ IdleNutrient
    /\ argEan \in EanStrings
    /\ eanValid = None

\* _valid_ean8(argEan) is called: it returns a truth value or raises
Ean8Call ==
    /\ eanValid = None
    /\ eanValid' = Some(IF _valid_ean8_raises(argEan)
                        THEN [fn |-> "_valid_ean8", kind |-> "ValueError", value |-> FALSE]
                        ELSE [fn |-> "_valid_ean8", kind |-> "returned",
                              value |-> _valid_ean8(argEan)])
    /\ UNCHANGED <<argEan, feedVars, framerVars, convertVars, importVars, downloadVars,
                   nutrientVars>>

\* _valid_ean13(argEan) is called: it returns a truth value or raises
Ean13Call ==
    /\ eanValid = None
    /\ eanValid' = Some(IF _valid_ean13_raises(argEan)
                        THEN [fn |-> "_valid_ean13", kind |-> "ValueError", value |-> FALSE]
                        ELSE [fn |-> "_valid_ean13", kind |-> "returned",
                              value |-> _valid_ean13(argEan)])
    /\ UNCHANGED <<argEan, feedVars, framerVars, convertVars, importVars, downloadVars,
                   nutrientVars>>

EanNext == Ean8Call \/ Ean13Call

SpecEan == EanInit /\ [][EanNext]_vars

----------------------------------------------------------------------------
(* _convert_nutrient applied to one set of arguments *)

\* The arguments of the model: the units of the code, two it does not know,
\* a value and a value_100g that are absent, zero, whole, fractional or
\* negative, the factor of a record per 100 g and of records per serving.
NutrientInit ==
    /\ IdleFeed
    /\ IdleFramer
    /\ IdleConvert
    /\ IdleImport
    /\ IdleDownload
    /\ IdleEan
    /\ argNutrient \in
           [value : {None, Some(RInt(0)), Some(RInt(1)), Some(RInt(40)), Some(Rat(3, 2)),
                     Some(RInt(-1))},
            unit : {None} \cup {Some(u) : u \in MicrogramUnits \cup
                        {"mg", "mcg", "g", "g/100mL", "g/100g", "", "IU", "kg", "% vol"}},
            value_100g : {None, Some(RInt(0)), Some(Rat(5, 2))},
            factor : {RInt(1), RInt(2), Rat(10, 3)},
            name : {"vitamin_a", "vitamin_d", "vitamin_e", "vitamin_c", "fat"}]
    /\ nutrient = <<>>

NutrientCall ==
    /\ nutrient = <<>>
    /\ nutrient' = <<_convert_nutrient(argNutrient.value, argNutrient.unit,
                                       argNutrient.value_100g, argNutrient.factor,
                                       argNutrient.name)>>
    /\ UNCHANGED <<argNutrient, feedVars, framerVars, convertVars, importVars, downloadVars,
                   eanVars>>

SpecNutrient == NutrientInit /\ [][NutrientCall]_vars

----------------------------------------------------------------------------
(* utils.download, consumed by decompress_by_line.  The server is part of   *)
(* the state: the Content-Length its HEAD response carries, if any, and its *)
(* manner of answering a GET.  The resource is the compressed feed gz.      *)

\* largest chunk_size download is called with
MaxChunkSize == 3

Min(a, b) == IF a <= b THEN a ELSE b

\* a slip: a missing header is read as the length 0
DownloadHeadLengthZero(f, content_length) ==
    [f EXCEPT !.pc = "loop", !.head = Some(content_length),
              !.length = IF IsNone(content_length) THEN 0 ELSE Get(content_length),
              !.position = 0]

\* session.head(url) has answered with the header content_length, None when
\* the header is absent (utils.py:32-38)
DownloadHead(f, content_length) ==
    IF IsNone(content_length)
    THEN [f EXCEPT !.pc = "raised", !.head = Some(content_length),
                   !.error = <<"DownloadError", "No content length found">>]
    ELSE [f EXCEPT !.pc = "loop", !.head = Some(content_length),
                   !.length = Get(content_length), !.position = 0]

\* a slip: the range starts one byte after the bytes received so far
DownloadRangeSkips(f) == <<f.position + 1, f.position + f.chunk_size>>

\* the Range header of the next request, its first and its last byte
\* (utils.py:42)
DownloadRange(f) == <<f.position, f.position + f.chunk_size - 1>>

\* a slip: progress is computed before position is advanced
DownloadGetEarlyProgress(f, content) ==
    LET position == f.position + Len(content)
        progress == IF f.length # 0 THEN Some(<<f.position, f.length>>) ELSE None
    IN  [frame |-> [f EXCEPT !.range = Some(DownloadRange(f)),
                             !.position = position,
                             !.progress = progress,
                             !.gets = (f.gets + 1) % 2],
         out |-> [chunk |-> content, progress |-> progress]]

\* one pass of the loop whose response raise_for_status accepts, with the
\* body content (utils.py:41-49): the frame at the yield and what is yielded.
\* gets is the parity of the number of requests sent so far.
DownloadGet(f, content) ==
    LET position == f.position + Len(content)
        progress == IF f.length # 0 THEN Some(<<position, f.length>>) ELSE None
    IN  [frame |-> [f EXCEPT !.range = Some(DownloadRange(f)),
                             !.position = position,
                             !.progress = progress,
                             !.gets = (f.gets + 1) % 2],
         out |-> [chunk |-> content, progress |-> progress]]

\* session.head raises (utils.py:32)
DownloadHeadRaises(f, exception) == [f EXCEPT !.pc = "raised", !.error = <<exception>>]

\* session.get or raise_for_status raises (utils.py:41-44)
DownloadGetRaises(f, exception) ==
    [f EXCEPT !.pc = "raised", !.range = Some(DownloadRange(f)),
              !.gets = (f.gets + 1) % 2, !.error = <<exception>>]

\* the condition of the loop fails (utils.py:40): the generator is exhausted
DownloadReturn(f) == [f EXCEPT !.pc = "done"]

\* The manners of a server: "ranged" answers a GET with a non-empty part of
\* the resource that starts at the first byte of the range and lies within
\* it, "stalling" does the same but the part may be empty, "whole" ignores
\* the range and sends the whole resource, "empty" sends an empty body.
Manners == {"ranged", "stalling", "whole", "empty"}

\* the bodies a server may answer a GET with; none when it can only answer
\* with an error status
ServerBodies(srv, resource, range) ==
    CASE srv.manner \in {"ranged", "stalling"} ->
             {SubSeq(resource, range[1] + 1, range[1] + n) :
                  n \in (IF srv.manner = "ranged" THEN 1 ELSE 0)
                        ..Min(range[2] - range[1] + 1, Len(resource) - range[1])}
      [] srv.manner = "whole" -> {resource}
      [] OTHER -> {<<>>}

\* what raises in download when a request fails for good: an error status
\* in raise_for_status, a transport error after the retries in session.get
TransferErrors == {"HTTPError", "ConnectionError"}

DownloadInit ==
    /\ data \in SeqsUpTo(Bytes, MaxData)
    /\ gz \in {GzipCompress(data, lvl) : lvl \in Levels}
    /\ srcPos = 0
    /\ lengthKnown = TRUE
    /\ IdleFramer
    /\ IdleConvert
    /\ IdleImport
    /\ IdleEan
    /\ IdleNutrient
    /\ server \in [content_length : {None} \cup {Some(n) : n \in 0..(Len(gz) + 1)},
                    manner : Manners]
    /\ dl = DlInit
    /\ received = <<>>

\* download(url, chunk_size) is called and handed to decompress_by_line
DlCall ==
    /\ dl.pc = "idle"
    /\ \E chunk_size \in 1..MaxChunkSize :
           dl' = [dl EXCEPT !.pc = "start", !.chunk_size = chunk_size]
    /\ UNCHANGED <<server, received>>

\* the HEAD request: it is answered, or it fails for good
DlHead ==
    /\ dl.pc = "start"
    /\ \/ dl' = DownloadHead(dl, server.content_length)
       \/ dl' = DownloadHeadRaises(dl, "ConnectionError")
    /\ UNCHANGED <<server, received>>

\* one pass of the loop of download: the request is answered and the body
\* is yielded, or the request fails for good
DlGet ==
    /\ dl.pc = "loop"
    /\ dl.position < dl.length
    /\ \/ \E content \in ServerBodies(server, gz, DownloadRange(dl)) :
             \E step \in {DownloadGet(dl, content)} :
               /\ dl' = step.frame
               /\ received' = received \o step.out.chunk
       \/ /\ \E exception \in TransferErrors : dl' = DownloadGetRaises(dl, exception)
          /\ received' = received
    /\ UNCHANGED server

\* the loop of download ends
DlReturn ==
    /\ dl.pc = "loop"
    /\ dl.position >= dl.length
    /\ dl' = DownloadReturn(dl)
    /\ UNCHANGED <<server, received>>

\* What the step of download is to decompress_by_line, which pulls it
\* (utils.py:61): an exception passes through it, the end of the generator
\* ends its loop, a chunk runs its loop once.
Consume ==
    IF dl'.pc = "raised"
    THEN dbl' = [dbl EXCEPT !.pc = "raised"] /\ yielded' = yielded
    ELSE IF dl'.pc = "done"
    THEN \E step \in {DblFinish(dbl)} :
             dbl' = step.frame /\ yielded' = yielded \o step.out
    ELSE IF dl.pc = "loop"
    THEN \E step \in {DblChunk(dbl, SubSeq(received', Len(received) + 1, Len(received')),
                                dl'.progress)} :
             dbl' = step.frame /\ yielded' = yielded \o step.out
    ELSE UNCHANGED framerVars

DownloadCall ==
    DlCall /\ Consume /\ UNCHANGED <<feedVars, convertVars, importVars, eanVars, nutrientVars>>

HeadRequest ==
    DlHead /\ Consume /\ UNCHANGED <<feedVars, convertVars, importVars, eanVars, nutrientVars>>

GetRequest ==
    DlGet /\ Consume /\ UNCHANGED <<feedVars, convertVars, importVars, eanVars, nutrientVars>>

Exhausted ==
    DlReturn /\ Consume /\ UNCHANGED <<feedVars, convertVars, importVars, eanVars, nutrientVars>>

DownloadNext == DownloadCall \/ HeadRequest \/ GetRequest \/ Exhausted

SpecDownload == DownloadInit /\ [][DownloadNext]_vars

\* The consumer keeps asking for the next chunk, and every request ends: it
\* is answered or it fails for good.  So download takes its next step
\* whenever it has one.
SpecDownloadFair ==
    SpecDownload /\ WF_downloadVars(DlCall \/ DlHead \/ DlGet \/ DlReturn)

----------------------------------------------------------------------------
(* openfoodfacts._download_chunked *)

\* chunk_size: int = 8192
DefaultChunkSize == 8192

\* the lines one decoded block yields (openfoodfacts.py:728-734, 737-743)
ChunkedLinesOf(lines, partial_output, progress) ==
    IF Len(lines) > 1
    THEN <<Line(IF IsNone(partial_output) THEN lines[1]
                ELSE Get(partial_output) \o lines[1], progress)>>
         \o [i \in 1..(Len(lines) - 2) |-> Line(lines[i + 1], progress)]
    ELSE <<>>

\* partial_output after one decoded block (openfoodfacts.py:729-732, 738-741)
ChunkedPartialAfter(lines, partial_output) ==
    LET cleared == IF Len(lines) > 1 THEN None ELSE partial_output
    IN  IF IsNone(cleared) THEN Some(lines[Len(lines)])
        ELSE Some(Get(cleared) \o lines[Len(lines)])

\* openfoodfacts.py:701-711, once requests.get has answered
DlcConnect(f, content_length) ==
    [f EXCEPT !.pc = "loop", !.partial_input = <<>>, !.partial_output = None,
              !.bytes_read = 0, !.content_length = content_length,
              !.decomp = DecompressObj, !.progress = None]

\* a slip: a short chunk replaces the accumulated input
DlcChunkOverwritesShort(f, chunk) ==
    IF chunk = <<>> THEN [frame |-> f, out |-> <<>>]
    ELSE
    LET bytes_read == f.bytes_read + Len(chunk)
        progress == IF ~IsNone(f.content_length) /\ Get(f.content_length) # 0
                    THEN Some(<<bytes_read, Get(f.content_length)>>)
                    ELSE None
    IN  IF Len(f.partial_input) + Len(chunk) < MinBlockSize
        THEN [frame |-> [f EXCEPT !.bytes_read = bytes_read, !.progress = progress,
                                  !.partial_input = chunk],
              out |-> <<>>]
        ELSE LET res == Decompress(f.decomp, f.partial_input \o chunk)
                 lines == Split(res.out)
             IN  [frame |-> [f EXCEPT !.bytes_read = bytes_read, !.progress = progress,
                                      !.partial_input = <<>>,
                                      !.decomp = res.d,
                                      !.partial_output =
                                          ChunkedPartialAfter(lines, f.partial_output)],
                  out |-> ChunkedLinesOf(lines, f.partial_output, progress)]

\* one iteration of `for chunk in r.iter_content(...)` (openfoodfacts.py:713-734)
DlcChunk(f, chunk) ==
    IF chunk = <<>> THEN [frame |-> f, out |-> <<>>]
    ELSE
    LET bytes_read == f.bytes_read + Len(chunk)
        progress == IF ~IsNone(f.content_length) /\ Get(f.content_length) # 0
                    THEN Some(<<bytes_read, Get(f.content_length)>>)
                    ELSE None
    IN  IF Len(f.partial_input) + Len(chunk) < MinBlockSize
        THEN [frame |-> [f EXCEPT !.bytes_read = bytes_read, !.progress = progress,
                                  !.partial_input = f.partial_input \o chunk],
              out |-> <<>>]
        ELSE LET res == Decompress(f.decomp, f.partial_input \o chunk)
                 lines == Split(res.out)
             IN  [frame |-> [f EXCEPT !.bytes_read = bytes_read, !.progress = progress,
                                      !.partial_input = <<>>,
                                      !.decomp = res.d,
                                      !.partial_output =
                                          ChunkedPartialAfter(lines, f.partial_output)],
                  out |-> ChunkedLinesOf(lines, f.partial_output, progress)]

\* a slip: a feed without a final line ends the generator quietly
DlcFinishToleratesNone(f) ==
    LET flush == f.partial_input # <<>>
        res == Decompress(f.decomp, f.partial_input)
        lines == Split(res.out)
        po == IF flush THEN ChunkedPartialAfter(lines, f.partial_output)
              ELSE f.partial_output
        out == IF flush THEN ChunkedLinesOf(lines, f.partial_output, f.progress) ELSE <<>>
    IN  IF IsNone(po)
        THEN [frame |-> [f EXCEPT !.pc = "done"], out |-> out]
        ELSE [frame |-> [f EXCEPT !.pc = "done", !.partial_output = po,
                                  !.partial_input = <<>>,
                                  !.decomp = IF flush THEN res.d ELSE f.decomp],
              out |-> out \o <<Line(Get(po), f.progress)>>]

\* after the loop (openfoodfacts.py:736-746)
DlcFinish(f) ==
    LET flush == f.partial_input # <<>>
        res == Decompress(f.decomp, f.partial_input)
        lines == Split(res.out)
        po == IF flush THEN ChunkedPartialAfter(lines, f.partial_output)
              ELSE f.partial_output
        out == IF flush THEN ChunkedLinesOf(lines, f.partial_output, f.progress) ELSE <<>>
    IN  IF IsNone(po)
        THEN [frame |-> [f EXCEPT !.pc = "AssertionError"], out |-> out]
        ELSE [frame |-> [f EXCEPT !.pc = "done", !.partial_output = po,
                                  !.partial_input = <<>>,
                                  !.decomp = IF flush THEN res.d ELSE f.decomp],
              out |-> out \o <<Line(Get(po), f.progress)>>]

----------------------------------------------------------------------------
(* The two framers, decompress_by_line and _download_chunked, fed with the  *)
(* same chunks of the same compressed feed.  The lines of the first are     *)
(* collected in yielded, the lines of the second in pending.                *)

FramersInit ==
    /\ data \in SeqsUpTo(Bytes, MaxData)
    /\ gz \in {GzipCompress(data, lvl) : lvl \in Levels}
    /\ srcPos = 0
    /\ lengthKnown \in BOOLEAN
    /\ dbl = DblInit
    /\ yielded = <<>>
    /\ dlc = DlcConnect(DlcInit, IF lengthKnown THEN Some(Len(gz)) ELSE None)
    /\ pending = <<>>
    /\ call = NoCall
    /\ imp = ImpInit
    /\ sink = SinkInit
    /\ IdleConvert
    /\ IdleDownload
    /\ IdleEan
    /\ IdleNutrient

\* both sources yield the next n bytes (n = 0: an empty chunk)
FramersChunk ==
    /\ dbl.pc = "loop"
    /\ dlc.pc = "loop"
    /\ \E n \in 0..(Len(gz) - srcPos) :
         /\ n > 0 \/ srcPos < Len(gz)
         /\ \E one \in {DblChunk(dbl, SubSeq(gz, srcPos + 1, srcPos + n),
                                  Progress(srcPos + n))},
               other \in {DlcChunk(dlc, SubSeq(gz, srcPos + 1, srcPos + n))} :
                /\ dbl' = one.frame
                /\ yielded' = yielded \o one.out
                /\ dlc' = other.frame
                /\ pending' = pending \o other.out
         /\ srcPos' = srcPos + n
    /\ UNCHANGED <<downloadVars, eanVars, nutrientVars, data, gz, lengthKnown, convertVars, call, imp, sink>>

\* both sources are exhausted
FramersEnd ==
    /\ dbl.pc = "loop"
    /\ dlc.pc = "loop"
    /\ srcPos = Len(gz)
    /\ \E one \in {DblFinish(dbl)}, other \in {DlcFinish(dlc)} :
           /\ dbl' = one.frame
           /\ yielded' = yielded \o one.out
           /\ dlc' = other.frame
           /\ pending' = pending \o other.out
    /\ UNCHANGED <<downloadVars, eanVars, nutrientVars, feedVars, convertVars, call, imp, sink>>

FramersNext == FramersChunk \/ FramersEnd

SpecFramers == FramersInit /\ [][FramersNext]_vars

----------------------------------------------------------------------------
(* database.session, the sink: add_all stages entries, commit persists what  *)
(* is staged as one batch, a failed commit rolls the staged entries back.   *)

SinkAddAll(sk, batch) == [sk EXCEPT !.staged = sk.staged \o batch]
SinkCommit(sk) == [sk EXCEPT !.batches = Append(sk.batches, sk.staged), !.staged = <<>>]
SinkRollback(sk) == [sk EXCEPT !.staged = <<>>]

----------------------------------------------------------------------------
(* openfoodfacts.import_url *)

\* The documents of a feed.  A byte of the decompressed feed other than the
\* line feed stands for the text of one whole JSON document, or for bytes
\* that are no UTF-8.
DocA == "A"
DocB == "B"
DocX == "X"
NoUtf8 == "U"
FeedLines == {<<>>, <<DocA>>, <<DocB>>, <<DocX>>, <<NoUtf8>>}

\* line.decode() and json.loads of a line of a feed
ParseLine(l) ==
    IF \E i \in 1..Len(l) : l[i] = NoUtf8
    THEN [form |-> "bad_utf8", msg |-> "", obj |-> BaseEntry]
    ELSE IF l = <<>>
    THEN [form |-> "bad_json", msg |-> "Expecting value: line 1 column 1 (char 0)",
          obj |-> BaseEntry]
    ELSE IF Len(l) > 1
    THEN [form |-> "bad_json", msg |-> "Extra data", obj |-> BaseEntry]
    ELSE IF l[1] = DocA THEN ObjectLine(BaseEntry)
    ELSE IF l[1] = DocB THEN ObjectLine(Edit(Edit(BaseEntry, 10), 23))
    ELSE ObjectLine(Edit(BaseEntry, 4))

\* a slip: the buffer is not emptied after a commit
ImportResultKeepsBuffer(im, res) ==
    LET counted == [im EXCEPT !.total = im.total + 1]
    IN  IF res.kind = "InvalidDataError" THEN [frame |-> counted, batch |-> None]
        ELSE IF res.kind # "entry"
        THEN [frame |-> [counted EXCEPT !.pc = "raised", !.error = res.kind], batch |-> None]
        ELSE LET added == [counted EXCEPT !.valid = im.valid + 1,
                                          !.entries = Append(im.entries, Get(res.entry))]
             IN  IF added.valid % CommitInterval = 0
                 THEN [frame |-> added, batch |-> Some(added.entries)]
                 ELSE [frame |-> added, batch |-> None]

\* a slip: the commit is decided on total, the number of lines read
ImportResultCountsLines(im, res) ==
    LET counted == [im EXCEPT !.total = im.total + 1]
    IN  IF res.kind = "InvalidDataError" THEN [frame |-> counted, batch |-> None]
        ELSE IF res.kind # "entry"
        THEN [frame |-> [counted EXCEPT !.pc = "raised", !.error = res.kind], batch |-> None]
        ELSE LET added == [counted EXCEPT !.valid = im.valid + 1,
                                          !.entries = Append(im.entries, Get(res.entry))]
             IN  IF added.total % CommitInterval = 0
                 THEN [frame |-> [added EXCEPT !.entries = <<>>],
                       batch |-> Some(added.entries)]
                 ELSE [frame |-> added, batch |-> None]

\* a slip: a rejected line is counted as valid
ImportResultCountsRejected(im, res) ==
    LET counted == [im EXCEPT !.total = im.total + 1]
    IN  IF res.kind = "InvalidDataError"
        THEN [frame |-> [counted EXCEPT !.valid = im.valid + 1], batch |-> None]
        ELSE IF res.kind # "entry"
        THEN [frame |-> [counted EXCEPT !.pc = "raised", !.error = res.kind], batch |-> None]
        ELSE LET added == [counted EXCEPT !.valid = im.valid + 1,
                                          !.entries = Append(im.entries, Get(res.entry))]
             IN  IF added.valid % CommitInterval = 0
                 THEN [frame |-> [added EXCEPT !.entries = <<>>],
                       batch |-> Some(added.entries)]
                 ELSE [frame |-> added, batch |-> None]

\* the body of the loop once _convert_entry has ended with res
\* (openfoodfacts.py:755-764): the frame after it and the batch to commit, if any
ImportResult(im, res) ==
    LET counted == [im EXCEPT !.total = im.total + 1]
    IN  IF res.kind = "InvalidDataError" THEN [frame |-> counted, batch |-> None]
        ELSE IF res.kind # "entry"
        THEN [frame |-> [counted EXCEPT !.pc = "raised", !.error = res.kind], batch |-> None]
        ELSE LET added == [counted EXCEPT !.valid = im.valid + 1,
                                          !.entries = Append(im.entries, Get(res.entry))]
             IN  IF added.valid % CommitInterval = 0
                 THEN [frame |-> [added EXCEPT !.entries = <<>>],
                       batch |-> Some(added.entries)]
                 ELSE [frame |-> added, batch |-> None]

\* the body of the loop for one line, up to the commit
ImportLine(im, l) == ImportResult(im, _convert_entry(ParseLine(l)))

RECURSIVE JoinLines(_)
JoinLines(ls) ==
    IF Len(ls) = 1 THEN ls[1] ELSE ls[1] \o <<LF>> \o JoinLines(Tail(ls))

ImportInit ==
    /\ data \in {JoinLines(ls) : ls \in SeqsUpTo(FeedLines, MaxLines) \ {<<>>}}
    \* the compressed feed, or a response without body
    /\ gz \in {GzipCompress(data, lvl) : lvl \in Levels}
               \cup (IF data = <<>> THEN {<<>>} ELSE {})
    /\ srcPos = 0
    /\ lengthKnown \in BOOLEAN
    /\ IdleFramer
    /\ IdleConvert
    /\ IdleImport
    /\ IdleDownload
    /\ IdleEan
    /\ IdleNutrient

\* import_url(...) is called.  Its only parameter is url: a call with more
\* arguments raises TypeError before the body runs.
ImportCall ==
    /\ imp.pc = "idle"
    /\ \E u \in {"dummy-url"}, cs \in {None, Some(1234)}, ci \in {None, Some(100)} :
         /\ call' = [url |-> u, chunk_size |-> cs, commit_interval |-> ci]
         /\ IF IsNone(cs) /\ IsNone(ci)
            THEN /\ imp' = [imp EXCEPT !.pc = "loop"]
                 /\ dlc' = [dlc EXCEPT !.pc = "start",
                                       !.source = Some([url |-> u,
                                                        chunk_size |-> DefaultChunkSize])]
            ELSE /\ imp' = [imp EXCEPT !.pc = "raised", !.error = "TypeError"]
                 /\ dlc' = dlc
    /\ UNCHANGED <<downloadVars, eanVars, nutrientVars, feedVars, framerVars, convertVars, pending, sink>>

\* the generator is started: requests.get answers with a good status
Connect ==
    /\ imp.pc = "loop"
    /\ dlc.pc = "start"
    /\ dlc' = DlcConnect(dlc, IF lengthKnown THEN Some(Len(gz)) ELSE None)
    /\ UNCHANGED <<downloadVars, eanVars, nutrientVars, feedVars, framerVars, convertVars, call, imp, pending, sink>>

\* iter_content yields the next n bytes (n = 0: an empty chunk)
Chunk ==
    /\ imp.pc = "loop"
    /\ dlc.pc = "loop"
    /\ pending = <<>>
    /\ srcPos < Len(gz)
    /\ \E n \in 0..(Len(gz) - srcPos) :
         /\ n <= Get(dlc.source).chunk_size
         /\ LET step == DlcChunk(dlc, SubSeq(gz, srcPos + 1, srcPos + n))
            IN  /\ dlc' = step.frame
                /\ pending' = step.out
         /\ srcPos' = srcPos + n
    /\ UNCHANGED <<downloadVars, eanVars, nutrientVars, data, gz, lengthKnown, framerVars, convertVars, call, imp, sink>>

\* iter_content is exhausted
EndOfFeed ==
    /\ imp.pc = "loop"
    /\ dlc.pc = "loop"
    /\ pending = <<>>
    /\ srcPos = Len(gz)
    /\ LET step == DlcFinish(dlc)
       IN  /\ dlc' = step.frame
           /\ pending' = step.out
           /\ imp' = IF step.frame.pc = "AssertionError"
                     THEN [imp EXCEPT !.pc = "raised", !.error = "AssertionError"]
                     ELSE imp
    /\ UNCHANGED <<downloadVars, eanVars, nutrientVars, feedVars, framerVars, convertVars, call, sink>>

\* requests.get, raise_for_status or iter_content raises
SourceFails ==
    /\ imp.pc = "loop"
    /\ pending = <<>>
    /\ \/ dlc.pc = "start" /\ imp' = [imp EXCEPT !.pc = "raised", !.error = "HTTPError"]
       \/ dlc.pc = "loop" /\ srcPos < Len(gz)
          /\ imp' = [imp EXCEPT !.pc = "raised", !.error = "ConnectionError"]
    /\ dlc' = [dlc EXCEPT !.pc = "raised"]
    /\ UNCHANGED <<downloadVars, eanVars, nutrientVars, feedVars, framerVars, convertVars, call, pending, sink>>

\* import_url takes the next line: one pass through the body of its loop
NextLine ==
    /\ imp.pc = "loop"
    /\ pending # <<>>
    /\ pending' = Tail(pending)
    /\ \E step \in {ImportLine(imp, Head(pending).line)} :
           IF IsNone(step.batch)
           THEN /\ imp' = step.frame
                /\ sink' = sink
           ELSE \/ /\ imp' = step.frame
                   /\ sink' = SinkCommit(SinkAddAll(sink, Get(step.batch)))
                \/ /\ imp' = [step.frame EXCEPT !.pc = "raised", !.error = "CommitError",
                                                !.entries = Get(step.batch)]
                   /\ sink' = SinkRollback(SinkAddAll(sink, Get(step.batch)))
    /\ UNCHANGED <<downloadVars, eanVars, nutrientVars, feedVars, framerVars, convertVars, call, dlc>>

\* a slip: the final flush in a `finally` clause, run also after an error
FinalFlushInFinally ==
    /\ \/ imp.pc = "loop" /\ dlc.pc = "done" /\ pending = <<>>
       \/ imp.pc = "raised" /\ imp.error # "TypeError" /\ imp.entries # <<>>
    /\ imp' = [imp EXCEPT !.pc = IF imp.pc = "loop" THEN "done" ELSE "raised",
                          !.entries = IF imp.pc = "loop" THEN imp.entries ELSE <<>>]
    /\ sink' = SinkCommit(SinkAddAll(sink, imp.entries))
    /\ UNCHANGED <<downloadVars, eanVars, nutrientVars, feedVars, framerVars, convertVars, call, dlc, pending>>

\* after the loop (openfoodfacts.py:769-770)
FinalFlush ==
    /\ imp.pc = "loop"
    /\ dlc.pc = "done"
    /\ pending = <<>>
    /\ \/ /\ imp' = [imp EXCEPT !.pc = "done"]
          /\ sink' = SinkCommit(SinkAddAll(sink, imp.entries))
       \/ /\ imp' = [imp EXCEPT !.pc = "raised", !.error = "CommitError"]
          /\ sink' = SinkRollback(SinkAddAll(sink, imp.entries))
    /\ UNCHANGED <<downloadVars, eanVars, nutrientVars, feedVars, framerVars, convertVars, call, dlc, pending>>

\* The run is cancelled between two lines.  import_url has no cancellation
\* point: the interrupt is the exception KeyboardInterrupt raised in it.
Cancel ==
    /\ imp.pc = "loop"
    /\ dlc.pc \in {"loop", "done"}
    /\ imp' = [imp EXCEPT !.pc = "raised", !.error = "KeyboardInterrupt"]
    /\ UNCHANGED <<downloadVars, eanVars, nutrientVars, feedVars, framerVars, convertVars, call, dlc, pending, sink>>

Next ==
    \/ ImportCall
    \/ Connect
    \/ Chunk
    \/ EndOfFeed
    \/ SourceFails
    \/ NextLine
    \/ FinalFlush
    \/ Cancel

Spec == ImportInit /\ [][Next]_vars

----------------------------------------------------------------------------
YieldedLines == [i \in 1..Len(yielded) |-> yielded[i].line]

\* C1: whatever the cut of gzip(s) into chunks, once decompress_by_line has
\* ended it has yielded exactly s.split(b"\n"), each line once and in order,
\* and it always ends that way.
C1_RoundTrip ==
    /\ dbl.pc # "AssertionError"
    /\ dbl.pc = "done" => YieldedLines = Split(data)

C1_Witness ==
    /\ dbl.pc = "done"
    /\ srcPos = Len(gz)
    /\ Len(yielded) = 3
    /\ yielded[1].line # <<>>
    /\ yielded[3].line # <<>>

----------------------------------------------------------------------------
(* Claims about _convert_entry *)

Called == result.kind # "none"
Entry == Get(result.entry)

\* C5: whatever the line, _convert_entry returns an entry or raises
\* InvalidDataError; no other error escapes it.
C5_OnlyInvalidDataError ==
    Called => result.kind \in {"entry", "InvalidDataError"}

\* The rejection checks of _convert_entry, each stated on its own, numbered in
\* the order of C6.
FactorOf(o) ==
    LET serving == ServingQuantity(o, OrNone(o.product_quantity))
    IN  IF o.nutrition_data_per = Some("serving") /\ serving.ok /\ TruthyNum(serving.v)
        THEN RDiv(RInt(100), Get(serving.v))
        ELSE RInt(1)

NutrimentsOf(o) == IF ~IsNone(o.nutriments) THEN o.nutriments ELSE o.nutriments_estimated

CheckFails(o, i) ==
    CASE i = 1 -> ~IsNone(o.no_nutrition_data)
                  /\ Get(o.no_nutrition_data) \in {"on", "ON", "On", "true", "TRUE", "True"}
      [] i = 2 -> IsNone(o.identifier)
      [] i = 3 -> ~IsNone(o.identifier) /\ ParseInt(Get(o.identifier)) = Some(0)
      [] i = 4 -> IsNone(o.created_t)
      [] i = 5 -> IsNone(o.product_name)
      [] i = 6 -> IsNone(o.codes_tags) \/ o.codes_tags = Some(<<>>)
      [] i = 7 -> ~IsNone(o.obsolete) /\ Get(o.obsolete) \in {"on", "ON", "On"}
      [] i = 8 -> /\ TruthyList(o.codes_tags)
                  /\ LET tags == Range(Get(o.codes_tags))
                     IN  \/ tags \cap {"code-8", "code-13"} = {}
                         \/ /\ "code-8" \in tags
                            /\ \/ _valid_ean8_raises(ZFill(Get(o.code), 8))
                               \/ ~_valid_ean8(ZFill(Get(o.code), 8))
                         \/ /\ "code-8" \notin tags /\ "code-13" \in tags
                            /\ \/ _valid_ean13_raises(ZFill(Get(o.code), 13))
                               \/ ~_valid_ean13(ZFill(Get(o.code), 13))
      [] i = 9 -> IsNone(NutrimentsOf(o))
      [] i = 10 -> ~ServingQuantity(o, OrNone(o.product_quantity)).ok
      [] i = 11 -> /\ o.nutrition_data_per = Some("serving")
                   /\ LET serving == ServingQuantity(o, OrNone(o.product_quantity))
                      IN  ~serving.ok \/ ~TruthyNum(serving.v)
      [] i = 12 -> ~IsNone(NutrimentsOf(o)) /\ ~Alcohol(Get(NutrimentsOf(o)), FactorOf(o)).ok
      [] i = 13 -> /\ ~IsNone(NutrimentsOf(o))
                   /\ LET n == Get(NutrimentsOf(o))
                          values == NutrimentValues(n, FactorOf(o), Alcohol(n, FactorOf(o)).v)
                      IN  \A name \in DOMAIN values : IsNone(values[name])

ReasonsOfCheck(i) ==
    CASE i = 1 -> {"no nutrition data"}
      [] i = 2 -> {"no identifier"}
      [] i = 3 -> {"invalid identifier"}
      [] i = 4 -> {"no creation date"}
      [] i = 5 -> {"no product name"}
      [] i = 6 -> {"no codes tags"}
      [] i = 7 -> {"obsolete entry"}
      [] i = 8 -> {"no supported code tag found", "invalid EAN-8 code", "invalid EAN-13 code"}
      [] i = 9 -> {"no nutriments present"}
      [] i = 10 -> {"serving_quantity in percent, but no product_quantity",
                    "unsupported serving quantity unit"}
      [] i = 11 -> {"nutrition data per serving, but no serving quantity"}
      [] i = 12 -> {"alcohol has no unit", "invalid alcohol unit"}
      [] i = 13 -> {"all nutrition data is zero"}

FailingChecks(o) == {i \in 1..13 : CheckFails(o, i)}
Earliest(S) == CHOOSE i \in S : \A j \in S : i <= j

\* a line that parses to a typed entry: a JSON object with a code
Parsed == argLine.form = "object" /\ ~IsNone(argLine.obj.code)

\* C6: the rejection checks are applied in one fixed order, and a record that
\* fails some of them is rejected with the reason of the earliest failing one.
C6_EarliestCheckWins ==
    (Called /\ Parsed) =>
        LET failing == FailingChecks(argLine.obj)
        IN  IF failing = {} THEN result.kind = "entry"
            ELSE /\ result.kind = "InvalidDataError"
                 /\ result.reason[1] \in ReasonsOfCheck(Earliest(failing))

\* C10, as stated: every returned entry has created <= last_updated.
C10_CreatedBeforeUpdated ==
    result.kind = "entry" => Entry.created <= Entry.last_updated

\* C10, amended: last_updated is created when last_updated_t is absent or 0,
\* and the date of last_updated_t otherwise; created <= last_updated holds
\* when last_updated_t is absent, 0 or not before created_t.
C10_LastUpdated ==
    result.kind = "entry" =>
        LET o == argLine.obj
            absent == IsNone(o.last_updated_t) \/ o.last_updated_t = Some(0)
        IN  /\ absent => Entry.last_updated = Entry.created
            /\ ~absent => Entry.last_updated = Get(o.last_updated_t) \div 86400
            /\ Entry.created = Get(o.created_t) \div 86400
            /\ (absent \/ Get(o.last_updated_t) >= Get(o.created_t))
                   => Entry.created <= Entry.last_updated

C10_Witness ==
    /\ result.kind = "entry"
    /\ ~IsNone(argLine.obj.last_updated_t)
    /\ Get(argLine.obj.last_updated_t) > Get(argLine.obj.created_t)
    /\ Entry.created < Entry.last_updated

----------------------------------------------------------------------------
(* Claims about import_url *)

RECURSIVE Flatten(_)
Flatten(ss) == IF ss = <<>> THEN <<>> ELSE Head(ss) \o Flatten(Tail(ss))

\* the entries of the lines of a feed that _convert_entry accepts, in the
\* order of the feed
RECURSIVE AcceptedOf(_)
AcceptedOf(ls) ==
    IF ls = <<>> THEN <<>>
    ELSE LET res == _convert_entry(ParseLine(Head(ls)))
         IN  (IF res.kind = "entry" THEN <<Get(res.entry)>> ELSE <<>>) \o AcceptedOf(Tail(ls))

Codes(es) == {es[i].code : i \in DOMAIN es}
Committed == Flatten(sink.batches)

\* C2: after import_url has returned normally the batches of the sink, in the
\* order of their commits, are the accepted entries of the feed in the order
\* of the feed, each in one batch, and the codes of the sink are the codes of
\* the accepted records.
C2_BatchesAreAccepted ==
    imp.pc = "done" =>
        /\ Committed = AcceptedOf(Split(data))
        /\ sink.staged = <<>>
        /\ Codes(Committed) = Codes(AcceptedOf(Split(data)))
        /\ Len(Committed) = imp.valid

C2_Witness ==
    /\ imp.pc = "done"
    /\ imp.valid = 3
    /\ imp.total = 4
    /\ Len(sink.batches) = 2
    /\ Cardinality(Codes(Committed)) = 2

C4_ArgumentsPassed ==
    (imp.pc # "idle" /\ ~IsNone(call.chunk_size) /\ ~IsNone(call.commit_interval)) =>
        /\ imp.error # "TypeError"
        /\ dlc.source = Some([url |-> call.url, chunk_size |-> Get(call.chunk_size)])

\* C7: a line that _convert_entry rejects with InvalidDataError adds one to
\* total and leaves valid, the buffer and the sink as they are, and the loop
\* goes on; an accepted line adds one to total and to valid, and its entry
\* is appended to the buffer (which is then committed when the interval is
\* reached).
C7_LineEffect ==
    [][(imp.pc = "loop" /\ pending # <<>> /\ pending' = Tail(pending)) =>
          LET res == _convert_entry(ParseLine(Head(pending).line))
              buffer == Append(imp.entries, Get(res.entry))
          IN  /\ imp'.total = imp.total + 1
              /\ res.kind = "InvalidDataError" =>
                     /\ imp'.valid = imp.valid
                     /\ imp'.entries = imp.entries
                     /\ sink' = sink
                     /\ imp'.pc = "loop"
              /\ res.kind = "entry" =>
                     /\ imp'.valid = imp.valid + 1
                     /\ \/ imp'.entries = buffer /\ sink' = sink /\ imp'.pc = "loop"
                        \/ /\ imp'.entries = <<>>
                           /\ sink'.batches = Append(sink.batches, buffer)
                        \/ /\ imp'.entries = buffer
                           /\ imp'.error = "CommitError"
                           /\ sink'.batches = sink.batches]_vars

C7_Witness ==
    /\ imp.pc = "loop"
    /\ imp.total = 3
    /\ imp.valid = 1
    /\ Len(imp.entries) = 1
    /\ pending # <<>>

Failure == imp.pc = "raised" /\ imp.error # "TypeError"

\* C8: once the chunk source, the framer or a commit has failed, import_url
\* has raised: nothing more is read, nothing more is staged or committed,
\* the entries in the buffer are in no batch, and the batches committed
\* before stay as they are.
C8_FailurePropagates ==
    /\ [](Failure =>
            /\ sink.staged = <<>>
            /\ Len(Committed) + Len(imp.entries) = imp.valid
            /\ \A i \in 1..Len(sink.batches) : Len(sink.batches[i]) = CommitInterval)
    /\ [][Failure => (Failure' /\ UNCHANGED <<srcPos, pending, sink>>)]_vars

C8_Witness ==
    /\ imp.pc = "raised"
    /\ imp.error \in {"ConnectionError", "CommitError"}
    /\ imp.entries # <<>>
    /\ sink.batches # <<>>

\* C9: a run cancelled between two lines stops reading and has flushed the
\* entries of its buffer when it returns.
C9_CancelFlushes ==
    (imp.pc \in {"done", "raised"} /\ imp.error = "KeyboardInterrupt") =>
        Len(Committed) = imp.valid

----------------------------------------------------------------------------
(* Claims about the bar code and the nutrients of a returned entry *)

CodeTags == Range(Get(argLine.obj.codes_tags))

\* C11: the code of a returned entry is 8 digits passing the EAN-8 check or
\* 13 digits passing the EAN-13 check, one of the two; it is the raw code
\* zero-padded to 8 when the tags hold "code-8", else zero-padded to 13 when
\* they hold "code-13"; a record with neither tag that comes as far as the
\* bar code is rejected with "no supported code tag found".
C11_CodeIsEan ==
    /\ result.kind = "entry" =>
           LET raw == Get(argLine.obj.code)
               code == Entry.code
           IN  /\ ~((Len(code) = 8 /\ _valid_ean8(code))
                      <=> (Len(code) = 13 /\ _valid_ean13(code)))
               /\ CodeTags \cap {"code-8", "code-13"} # {}
               /\ "code-8" \in CodeTags => code = ZFill(raw, 8) /\ Len(code) = 8
               /\ "code-8" \notin CodeTags => code = ZFill(raw, 13) /\ Len(code) = 13
    /\ (/\ Called
        /\ Parsed
        /\ result.kind # "ValueError"
        /\ FailingChecks(argLine.obj) \cap 1..7 = {}
        /\ CodeTags \cap {"code-8", "code-13"} = {})
           => /\ result.kind = "InvalidDataError"
              /\ result.reason = <<"no supported code tag found">>

\* a returned entry whose record has both tags and a raw code shorter than 8
C11_Witness ==
    /\ result.kind = "entry"
    /\ {"code-8", "code-13"} \subseteq CodeTags
    /\ Len(Get(argLine.obj.code)) < 8
    /\ Len(Entry.code) = 8

\* C12: no nutrient of a returned entry is 0, a zero result being stored as
\* null, and at least one nutrient is not null; a record that comes as far as
\* the nutrients is rejected with "all nutrition data is zero" exactly when
\* all of them are null after conversion.
C12_NoZeroNutrient ==
    /\ result.kind = "entry" =>
           /\ \A name \in DOMAIN Entry.nutrients :
                  IsNone(Entry.nutrients[name]) \/ ~RIsZero(Get(Entry.nutrients[name]))
           /\ \E name \in DOMAIN Entry.nutrients : ~IsNone(Entry.nutrients[name])
           /\ DOMAIN Entry.nutrients = {"alcohol", "energy", "vitamin_b3", "vitamin_b9"}
                                           \cup Range(REGULAR_NUTRIMENT_NAMES)
    /\ (Called /\ Parsed /\ result.kind # "ValueError") =>
           ((/\ result.kind = "InvalidDataError"
             /\ result.reason = <<"all nutrition data is zero">>)
            <=> FailingChecks(argLine.obj) = {13})

\* a returned entry with a nutrient given as 0 and stored as null
C12_Witness ==
    /\ result.kind = "entry"
    /\ \E name \in Range(REGULAR_NUTRIMENT_NAMES) :
           /\ Get(NutrimentsOf(argLine.obj)).n[name].value = Some(RInt(0))
           /\ ~IsNone(Get(NutrimentsOf(argLine.obj)).n[name].unit)
           /\ IsNone(Entry.nutrients[name])

----------------------------------------------------------------------------
(* Claims about utils.download *)

\* the server of C13: its Content-Length is the length of the resource and
\* it answers a GET with a non-empty part that starts at the offset asked for
Faithful == server.manner = "ranged" /\ server.content_length = Some(Len(gz))

\* C13: every request of download asks for the range that starts at the
\* number of bytes received so far and ends chunk_size - 1 bytes later; with
\* a server that answers with a non-empty part of the resource from that
\* offset, the chunks yielded so far are the resource up to position, and all
\* of it once download is exhausted.
C13_ChunksAreResource ==
    /\ [](Faithful =>
             /\ dl.position = Len(received)
             /\ received = SubSeq(gz, 1, dl.position)
             /\ dl.pc = "done" => received = gz)
    /\ [][dl.gets' # dl.gets =>
              dl.range' = Some(<<Len(received), Len(received) + dl.chunk_size - 1>>)]_vars

\* the whole resource has come in chunks of at most two bytes
C13_Witness ==
    /\ Faithful
    /\ dl.pc = "done"
    /\ dl.chunk_size = 2
    /\ received = gz
    /\ Len(gz) >= 5

\* C14: once the HEAD response has given a Content-Length, the loop of
\* download comes to an end, whatever the server does: the generator is
\* exhausted or it fails.
C14_DownloadTerminates == (dl.pc = "loop") ~> (dl.pc \in {"done", "raised"})

\* C15: when the HEAD response has no Content-Length header, download has
\* failed with DownloadError("No content length found"): no GET was sent, no
\* chunk was yielded, and the framer fed by it has yielded no line.
C15_NoContentLength ==
    (dl.head = Some(None)) =>
        /\ dl.pc = "raised"
        /\ dl.error = <<"DownloadError", "No content length found">>
        /\ dl.range = None
        /\ dl.gets = 0
        /\ received = <<>>
        /\ yielded = <<>>

C15_Witness ==
    /\ dl.head = Some(None)
    /\ server.content_length = None
    /\ dl.pc = "raised"
    /\ dbl.pc = "raised"

\* C16: every failure of download reaches the caller as DownloadError.
C16_FailuresAreDownloadErrors ==
    (dl.pc = "raised") => (dl.error # <<>> /\ dl.error[1] = "DownloadError")

\* progress values are fractions <<position, length>>
ProgressLe(p, q) == p[1] * q[2] <= q[1] * p[2]

ProgressIn01(p, zero) == (zero \/ 0 < p[1]) /\ 0 <= p[1] /\ p[1] <= p[2]

ProgressIsOne(p) == p[1] = p[2] /\ p[2] > 0

HonestLength == server.content_length = Some(Len(gz))

LinesProgress ==
    /\ \A i \in 1..Len(yielded) :
           /\ yielded[i].progress # None
           /\ ProgressIn01(Get(yielded[i].progress), FALSE)
    /\ \A i \in 1..(Len(yielded) - 1) :
           ProgressLe(Get(yielded[i].progress), Get(yielded[i + 1].progress))
    /\ dbl.pc = "done" =>
           /\ yielded # <<>>
           /\ ProgressIsOne(Get(yielded[Len(yielded)].progress))

\* C17, as stated: with the Content-Length of the resource, the progress of
\* every chunk and of every line lies in (0,1], the progress of the lines
\* does not decrease, and the last chunk and the last line have 1.0.
C17_ProgressAboveZero ==
    HonestLength =>
        /\ dl.progress # None => ProgressIn01(Get(dl.progress), FALSE)
        /\ (dl.pc = "done" /\ dl.progress # None) => ProgressIsOne(Get(dl.progress))
        /\ LinesProgress

\* C17, amended: the same, but the progress of a chunk lies in [0,1]; it is
\* 0.0 while the bodies received so far are all empty.
C17_Progress ==
    /\ [](HonestLength =>
            /\ dl.progress # None =>
                   /\ ProgressIn01(Get(dl.progress), TRUE)
                   /\ Get(dl.progress)[1] = 0 <=> received = <<>>
            /\ (dl.pc = "done" /\ dl.progress # None) => ProgressIsOne(Get(dl.progress))
            /\ LinesProgress)
    /\ [][(HonestLength /\ dl.progress # None) =>
             (dl'.progress # None /\ ProgressLe(Get(dl.progress), Get(dl'.progress)))]_vars

\* some body was empty (more requests than bytes), and download still came
\* to its end with lines
C17_Witness ==
    /\ HonestLength
    /\ server.manner = "stalling"
    /\ dl.pc = "done"
    /\ dbl.pc = "done"
    /\ dl.chunk_size = 1
    /\ dl.gets # Len(received) % 2
    /\ Len(yielded) >= 2
    /\ yielded[1].progress # yielded[Len(yielded)].progress

----------------------------------------------------------------------------
(* Claims about the two framers *)

\* C18, as stated: a feed that decompresses to the empty byte string makes
\* neither framer yield a line.
C18_EmptyYieldsNothing ==
    (data = <<>>) => (yielded = <<>> /\ pending = <<>>)

\* C18, amended: for such a feed both framers yield nothing from their loop
\* and then, after it, exactly one line, the empty line.
C18_EmptyYieldsOneEmptyLine ==
    (data = <<>>) =>
        /\ dbl.pc \in {"loop", "done"}
        /\ dlc.pc \in {"loop", "done"}
        /\ dbl.pc = "loop" => yielded = <<>>
        /\ dlc.pc = "loop" => pending = <<>>
        /\ dbl.pc = "done" => (Len(yielded) = 1 /\ yielded[1].line = <<>>)
        /\ dlc.pc = "done" => (Len(pending) = 1 /\ pending[1].line = <<>>)

C18_Witness ==
    /\ data = <<>>
    /\ srcPos = Len(gz)
    /\ dbl.pc = "done"
    /\ dlc.pc = "done"
    /\ dbl.decomp # DecompressObj

----------------------------------------------------------------------------
(* Claims about the buffer of import_url *)

----------------------------------------------------------------------------
(* Claims about the checks of a bar code *)

\* the digits of a string that has decimal digits only
D(e, i) == DigitValue(e[i])

\* the conditions under which a string is a valid EAN-13 code
IsEan13(e) ==
    /\ Len(e) = 13
    /\ \A i \in 1..13 : e[i] \in Digits
    \* the numeric value is at least 100_000_000: a digit before the last
    \* eight is not 0
    /\ \E i \in 1..5 : e[i] # "0"
    /\ LET prefix == 100 * D(e, 1) + 10 * D(e, 2) + D(e, 3)
       IN  /\ prefix \in 0..958
           /\ prefix \notin 20..29
           /\ prefix \notin 40..49
           /\ prefix \notin 200..299
    /\ (D(e, 1) + 3 * D(e, 2) + D(e, 3) + 3 * D(e, 4) + D(e, 5) + 3 * D(e, 6)
        + D(e, 7) + 3 * D(e, 8) + D(e, 9) + 3 * D(e, 10) + D(e, 11) + 3 * D(e, 12)
        + D(e, 13)) % 10 = 0

Ean13Called == eanValid # None /\ Get(eanValid).fn = "_valid_ean13"

\* C20: for every string, _valid_ean13 returns, and it returns true exactly
\* when the string has length 13, digits only, a value of at least
\* 100_000_000, a valid country prefix and a weighted digit sum divisible
\* by 10.
C20_Ean13Exactly ==
    Ean13Called =>
        /\ Get(eanValid).kind = "returned"
        /\ Get(eanValid).value <=> IsEan13(argEan)

\* whenever _valid_ean13 returns, it returns what the conditions say
Ean13AsStatedWhenItReturns ==
    (Ean13Called /\ Get(eanValid).kind = "returned") =>
        (Get(eanValid).value <=> IsEan13(argEan))

\* the cases of the conditions all occur
Ean13CasesOccur ==
    /\ Ean13Called
    /\ Get(eanValid).value
    /\ argEan[1] = "0" /\ argEan[2] = "0" /\ argEan[3] = "0"

\* the conditions under which a string is a valid EAN-8 code
IsEan8(e) ==
    /\ Len(e) = 8
    /\ \A i \in 1..8 : e[i] \in Digits
    /\ LET prefix == 100 * D(e, 1) + 10 * D(e, 2) + D(e, 3)
       IN  /\ prefix \in 0..958
           /\ prefix \notin 20..29
           /\ prefix \notin 40..49
           /\ prefix \notin 200..299
    \* indices 1, 3, 5, 7 of the source are 2, 4, 6, 8 here
    /\ ((D(e, 2) + D(e, 4) + D(e, 6) + D(e, 8))
        + 3 * (D(e, 1) + D(e, 3) + D(e, 5) + D(e, 7))) % 10 = 0

Ean8Called == eanValid # None /\ Get(eanValid).fn = "_valid_ean8"

\* C21: for every string, _valid_ean8 returns, and it returns true exactly
\* when the string has length 8, digits only, a valid country prefix and a
\* weighted digit sum divisible by 10.
C21_Ean8Exactly ==
    Ean8Called =>
        /\ Get(eanValid).kind = "returned"
        /\ Get(eanValid).value <=> IsEan8(argEan)

\* whenever _valid_ean8 returns, it returns what the conditions say
Ean8AsStatedWhenItReturns ==
    (Ean8Called /\ Get(eanValid).kind = "returned") =>
        (Get(eanValid).value <=> IsEan8(argEan))

----------------------------------------------------------------------------
(* Claims about _convert_nutrient *)

NutrientCalled == nutrient # <<>>
Returned100g == TruthyNum(argNutrient.value_100g)
ValueIsZero == ~IsNone(argNutrient.value) /\ RIsZero(Get(argNutrient.value))

\* C22, as stated: with value = 0 the result is null, whatever the other
\* arguments are.
C22_ZeroValueIsNull ==
    (NutrientCalled /\ ValueIsZero) => nutrient[1] = None

\* C22, amended: with value = 0 the result is null when value_100g is absent
\* or zero, and value_100g itself otherwise.
C22_ZeroValueIsNullWithout100g ==
    (NutrientCalled /\ ValueIsZero) =>
        /\ ~Returned100g => nutrient[1] = None
        /\ Returned100g => nutrient[1] = argNutrient.value_100g

C22_Witness ==
    /\ NutrientCalled
    /\ ValueIsZero
    /\ Returned100g
    /\ argNutrient.unit = Some("g")
    /\ nutrient[1] = Some(Rat(5, 2))

\* the scale of a unit for a nutrient: what one unit of it is in grams, or
\* none for a unit that is not converted
ScaleOf(unit, name) ==
    CASE unit \in {"micro_sign_g", "greek_mu_g", "&#181;g"} -> Some(Rat(1, 1000000))
      [] unit \in {"mg", "mcg"} -> Some(Rat(1, 1000))
      [] unit \in {"g", "g/100mL", "g/100g", ""} -> Some(RInt(1))
      [] unit = "IU" /\ name = "vitamin_a" -> Some(Rat(3, 10000000))
      [] unit = "IU" /\ name = "vitamin_d" -> Some(Rat(25, 1000000000))
      [] unit = "IU" /\ name = "vitamin_e" -> Some(Rat(67, 100000000))
      [] OTHER -> None

\* C23: for a value that is neither null nor zero, a unit that is not null
\* and a value_100g that is absent or zero, the result is factor * value in
\* grams by the scale of the unit, and null for a unit without scale; with a
\* non-zero value_100g the result is value_100g, not scaled by the factor.
C23_UnitTable ==
    NutrientCalled =>
        LET a == argNutrient
        IN  /\ Returned100g => nutrient[1] = a.value_100g
            /\ (~Returned100g /\ ~IsNone(a.value) /\ ~ValueIsZero /\ ~IsNone(a.unit)) =>
                   LET scale == ScaleOf(Get(a.unit), a.name)
                   IN  IF IsNone(scale) THEN nutrient[1] = None
                       ELSE nutrient[1]
                                = Some(RMul(RMul(a.factor, Get(a.value)), Get(scale)))

\* a fractional value in IU of vitamin D for a record per serving
C23_Witness ==
    /\ NutrientCalled
    /\ argNutrient.unit = Some("IU")
    /\ argNutrient.name = "vitamin_d"
    /\ argNutrient.value = Some(Rat(3, 2))
    /\ argNutrient.factor = Rat(10, 3)
    /\ ~Returned100g
    /\ nutrient[1] = Some(Rat(1, 8000000))

----------------------------------------------------------------------------
(* Claims about the factor, the alcohol and the identifier of a record *)

\* the serving quantity of a record in grams, none when the record has none
\* or has it in a unit that is not resolved
ResolvedServing(o) ==
    IF IsNone(o.serving_quantity) \/ RIsZero(Get(o.serving_quantity)) THEN None
    ELSE IF o.serving_quantity_unit \in {None, Some("g")} THEN o.serving_quantity
    ELSE IF o.serving_quantity_unit = Some("%") /\ TruthyNum(o.product_quantity)
    THEN Some(RMul(Rat(Get(o.serving_quantity)[1], 100 * Get(o.serving_quantity)[2]),
                   Get(o.product_quantity)))
    ELSE None

PerServing(o) == o.nutrition_data_per = Some("serving")

\* the factor the claim gives a record
StatedFactor(o) ==
    IF PerServing(o) THEN RDiv(RInt(100), Get(ResolvedServing(o))) ELSE RInt(1)

\* C24: the nutrients of a returned entry are scaled by 100 over the resolved
\* serving quantity when the record is per serving, and by 1 otherwise,
\* shown on alcohol and on energy; an entry per serving has a resolved
\* serving quantity that is not zero; a record per serving without one that
\* passes the checks before is rejected with "nutrition data per serving,
\* but no serving quantity".
C24_Factor ==
    LET o == argLine.obj
    IN  /\ result.kind = "entry" =>
               LET n == Get(NutrimentsOf(o))
               IN  /\ PerServing(o) => TruthyNum(ResolvedServing(o))
                   /\ (TruthyNum(n.alcohol) /\ n.alcohol_unit = Some("g")) =>
                          Entry.nutrients["alcohol"]
                              = Some(RMul(StatedFactor(o), Get(n.alcohol)))
                   /\ (TruthyNum(n.alcohol) /\ n.alcohol_unit = Some("% vol")) =>
                          Entry.nutrients["alcohol"]
                              = Some(RMul(RMul(StatedFactor(o), Get(n.alcohol)),
                                          Rat(789, 1000)))
                   /\ TruthyNum(n.energy_kcal) =>
                          Entry.nutrients["energy"]
                              = Some(RMul(StatedFactor(o), Get(n.energy_kcal)))
        /\ (/\ Called
            /\ Parsed
            /\ result.kind # "ValueError"
            /\ FailingChecks(o) \cap 1..10 = {}
            /\ PerServing(o)
            /\ ~TruthyNum(ResolvedServing(o)))
               => /\ result.kind = "InvalidDataError"
                  /\ result.reason = <<"nutrition data per serving, but no serving quantity">>

\* an entry per serving whose serving is 25 % of 200 g: the factor is 2
C24_Witness ==
    /\ result.kind = "entry"
    /\ PerServing(argLine.obj)
    /\ argLine.obj.serving_quantity_unit = Some("%")
    /\ ResolvedServing(argLine.obj) = Some(RInt(50))
    /\ Entry.nutrients["alcohol"] = Some(Rat(789, 100))

\* C25: a record that comes as far as the alcohol with an alcohol of 0 and no
\* alcohol_unit is not rejected there: it is returned without alcohol or
\* rejected by a later check; with an alcohol that is not 0 and no unit it
\* is rejected with "alcohol has no unit".
C25_ZeroAlcoholPasses ==
    LET o == argLine.obj
    IN  (/\ Called
         /\ Parsed
         /\ result.kind # "ValueError"
         /\ FailingChecks(o) \cap 1..11 = {}
         /\ ~IsNone(Get(NutrimentsOf(o)).alcohol)
         /\ IsNone(Get(NutrimentsOf(o)).alcohol_unit))
            => IF RIsZero(Get(Get(NutrimentsOf(o)).alcohol))
               THEN \/ result.kind = "entry" /\ IsNone(Entry.nutrients["alcohol"])
                    \/ /\ result.kind = "InvalidDataError"
                       /\ result.reason = <<"all nutrition data is zero">>
               ELSE /\ result.kind = "InvalidDataError"
                    /\ result.reason = <<"alcohol has no unit">>

\* C27: an accepted record has an id that parses to a positive integer; a
\* record without id that comes as far as the id check is rejected with "no
\* identifier", one whose id parses to zero or to a negative integer with
\* "invalid identifier (<id>)".
C27_IdentifierPositive ==
    LET o == argLine.obj
        n == ParseInt(Get(o.identifier))
    IN  (Called /\ Parsed) =>
            /\ result.kind = "entry" =>
                   /\ ~IsNone(o.identifier)
                   /\ ~IsNone(n)
                   /\ Get(n) > 0
            /\ (~CheckFails(o, 1) /\ IsNone(o.identifier)) =>
                   /\ result.kind = "InvalidDataError"
                   /\ result.reason = <<"no identifier">>
            /\ (~CheckFails(o, 1) /\ ~IsNone(o.identifier) /\ ~IsNone(n) /\ Get(n) <= 0) =>
                   /\ result.kind = "InvalidDataError"
                   /\ result.reason = <<"invalid identifier", Get(o.identifier)>>

-----------------------------------------------------------------------------
(* Claims about the progress of a line and about the two framers            *)

\* the number of lines that the first p bytes of the input complete
LinesIn(p) == Len(Split(Decompress(DecompressObj, SubSeq(gz, 1, p)).out)) - 1

\* the lines a step adds to a sequence of yielded lines
NewLines(before, after) == (Len(before) + 1)..Len(after)

\* C26 as stated: a line yielded while a chunk is processed was completed by
\* the bytes of that very chunk (where the length is known and the chunks
\* differ in progress, the bytes before the chunk did not complete it) and
\* carries that chunk's progress, also when short chunks were accumulated;
\* the tail line carries the progress of the last chunk.
C26_ProgressOfCompletingChunk ==
    [][/\ srcPos' # srcPos =>
            /\ \A i \in NewLines(yielded, yielded') :
                   /\ lengthKnown => LinesIn(srcPos) < i
                   /\ yielded'[i].progress = Progress(srcPos')
            /\ \A i \in NewLines(pending, pending') :
                   /\ lengthKnown => LinesIn(srcPos) < i
                   /\ pending'[i].progress = Progress(srcPos')
       /\ (dbl.pc = "loop" /\ dbl'.pc = "done" /\ yielded' # yielded) =>
            yielded'[Len(yielded')].progress = dbl.progress
       /\ (dlc.pc = "loop" /\ dlc'.pc = "done" /\ pending' # pending) =>
            pending'[Len(pending')].progress = dlc.progress]_vars

\* C26, amended: a line carries the progress of the chunk with which its
\* bytes were decoded, which is the chunk that completed it or, after short
\* chunks were accumulated, a later one; the lines yielded after the last
\* chunk (the accumulated rest and the tail) carry the last chunk's progress.
C26_ProgressOfDecodingChunk ==
    [][/\ srcPos' # srcPos =>
            /\ \A i \in NewLines(yielded, yielded') :
                   /\ i <= LinesIn(srcPos')
                   /\ yielded'[i].progress = Progress(srcPos')
            /\ \A i \in NewLines(pending, pending') :
                   /\ i <= LinesIn(srcPos')
                   /\ pending'[i].progress = Progress(srcPos')
       /\ (dbl.pc = "loop" /\ dbl'.pc = "done") =>
            \A i \in NewLines(yielded, yielded') : yielded'[i].progress = dbl.progress
       /\ (dlc.pc = "loop" /\ dlc'.pc = "done") =>
            \A i \in NewLines(pending, pending') : pending'[i].progress = dlc.progress]_vars

\* a short chunk that completed a line has been accumulated: the line is
\* held back and will be yielded with the progress of a later chunk
C26_Witness ==
    /\ lengthKnown
    /\ dbl.pc = "loop"
    /\ dbl.partial_input # <<>>
    /\ dlc.partial_input # <<>>
    /\ srcPos < Len(gz)
    /\ LinesIn(srcPos) > Len(yielded)
    /\ LinesIn(srcPos) > Len(pending)

\* the lines of a sequence of yielded pairs
LinesAlone(ys) == [i \in 1..Len(ys) |-> ys[i].line]

\* C28: fed with the same chunks, empty ones among them, the loop of
\* _download_chunked and decompress_by_line have yielded the same lines, hold
\* the same input back while they run and have ended or not ended alike.
C28_FramersAgree ==
    /\ LinesAlone(yielded) = LinesAlone(pending)
    /\ dbl.pc = "loop" => dbl.partial_input = dlc.partial_input
    /\ dbl.partial_output = dlc.partial_output
    /\ dbl.pc = dlc.pc

\* both framers have ended after lines that were decoded with different
\* chunks, the first of them after an accumulated short chunk
C28_Witness ==
    /\ lengthKnown
    /\ dbl.pc = "done"
    /\ dlc.pc = "done"
    /\ Len(pending) >= 3
    /\ pending[1].progress # pending[2].progress
    /\ LinesIn(MinBlockSize - 1) >= 1

-----------------------------------------------------------------------------
(* Claims about the counters of import_url and about a feed without data     *)

\* the lines import_url has taken from the framer so far
Consumed == SubSeq(Split(data), 1, imp.total)

\* C29: at the end of every iteration of the loop of import_url valid is at
\* most total, total - valid is the number of the lines rejected so far, the
\* buffer holds valid mod CommitInterval entries, and valid is the number of
\* the entries committed plus the number of the entries in the buffer.
C29_Counters ==
    imp.pc = "loop" =>
        /\ imp.total <= Len(Split(data))
        /\ imp.valid <= imp.total
        /\ imp.total - imp.valid = Len(Consumed) - Len(AcceptedOf(Consumed))
        /\ Len(imp.entries) = imp.valid % CommitInterval
        /\ (imp.valid % CommitInterval = 0) <=> (imp.entries = <<>>)
        /\ imp.valid = Len(Committed) + Len(imp.entries)
        /\ sink.staged = <<>>

\* the iteration for the fourth line has ended: one line was rejected, two
\* entries were committed and one is in the buffer
C29_Witness ==
    /\ imp.pc = "loop"
    /\ imp.total = 4
    /\ imp.valid = CommitInterval + 1
    /\ Len(Committed) = CommitInterval
    /\ Len(imp.entries) = 1

\* C30: when the source delivers no data at all, the framer of import_url
\* yields nothing and ends with the AssertionError of the missing final
\* line; import_url raises it, reads no line, commits nothing and does not
\* return.
C30_NoDataAborts ==
    /\ [](gz = <<>> =>
            /\ pending = <<>>
            /\ imp.total = 0
            /\ sink = SinkInit
            /\ imp.pc # "done"
            /\ dlc.pc # "done")
    /\ [][(gz = <<>> /\ dlc.pc = "loop" /\ dlc'.pc \notin {"loop", "raised"}) =>
             /\ dlc'.pc = "AssertionError"
             /\ imp'.pc = "raised"
             /\ imp'.error = "AssertionError"]_vars

\* import_url has raised the AssertionError of a feed without data
C30_Witness ==
    /\ gz = <<>>
    /\ dlc.pc = "AssertionError"
    /\ dlc.bytes_read = 0
    /\ imp.pc = "raised"
    /\ imp.error = "AssertionError"
    /\ sink = SinkInit

\* the same for decompress_by_line fed by download: a resource of
\* Content-Length 0 is downloaded without a request for a chunk, and
\* decompress_by_line ends with the AssertionError, having yielded nothing
NoDataEndsDecompressByLine ==
    (server.content_length = Some(0) /\ dl.pc = "done") =>
        /\ received = <<>>
        /\ IsNone(dl.range)
        /\ yielded = <<>>
        /\ dbl.pc = "AssertionError"

====
